---------------------------- MODULE Spec2Model ----------------------------
(***************************************************************************)
(* Model of the trajectory engine of mc-raptor-trajectory-tool:            *)
(*   - the registry (getTrajectory) and the aggregator (computeStats),     *)
(*   - the lissajous model (cycle duration, getPlotTime, evaluate,         *)
(*     simulate, hasSingularity, getCommand),                              *)
(*   - the langevin model (getPlotTime, simulate, evaluate,                *)
(*     hasSingularity, getCommand).                                        *)
(*                                                                         *)
(* JavaScript numbers are modelled as exact rationals extended with the    *)
(* three non-finite values of IEEE-754.  A number is a pair <<n, d>>:      *)
(*   d > 0  : the rational n/d in lowest terms,                            *)
(*   <<0,0>>: NaN,   <<1,0>>: +Infinity,   <<-1,0>>: -Infinity.            *)
(* Rounding of finite doubles and the sign of zero are not modelled.       *)
(* Math.sqrt returns the exact root when it is rational and the root       *)
(* rounded down to a multiple of 1/Grid otherwise; Math.sin and Math.cos   *)
(* are Bhaskara's rational approximation rounded to a multiple of 1/Grid.  *)
(***************************************************************************)
EXTENDS Integers, Sequences, FiniteSets, TLC

(***************************************************************************)
(* Evaluation order.  JavaScript evaluates an expression once and names    *)
(* its value; `The({e(v) : v \in {x}})` does the same: it evaluates x      *)
(* once, binds v to the value and yields e(v).                             *)
(***************************************************************************)
The(S) == CHOOSE r \in S : TRUE

\* the array with the elements f[1], ..., f[n] of a function f on 1..n
ArrayOf(f) == <<>> \o f

(***************************************************************************)
(* Numbers                                                                 *)
(***************************************************************************)
NaN  == <<0, 0>>
PInf == <<1, 0>>
NInf == <<-1, 0>>

IAbs(i) == IF i < 0 THEN -i ELSE i

ISign(i) == IF i < 0 THEN -1 ELSE IF i > 0 THEN 1 ELSE 0

RECURSIVE IGcd(_, _)
IGcd(a, b) == The({IF v = 0 THEN u ELSE IGcd(v, u % v) : u \in {a}, v \in {b}})

\* the rational n/d (d # 0) in lowest terms with a positive denominator
Q(n, d) ==
  The({IF d < 0 THEN <<-(n \div g), -(d \div g)>> ELSE <<n \div g, d \div g>> :
         g \in {IGcd(IAbs(n), IAbs(d))}})

Int2Num(i) == <<i, 1>>

Zero == <<0, 1>>
One  == <<1, 1>>
Two  == <<2, 1>>

IsNaN(x)    == x = NaN
IsInf(x)    == x[2] = 0 /\ x[1] # 0
IsFinite(x) == x[2] > 0
Sign(x)     == ISign(x[1])

\* a/b < c/d for integers a, c and positive b, d, without forming a*d or c*b
RECURSIVE FracLess(_, _, _, _)
FracLess(a, b, c, d) ==
  The({IF u[1] \div u[2] # v[1] \div v[2] THEN u[1] \div u[2] < v[1] \div v[2]
       ELSE IF v[1] % v[2] = 0 THEN FALSE
       ELSE IF u[1] % u[2] = 0 THEN TRUE
       ELSE FracLess(v[2], v[1] % v[2], u[2], u[1] % u[2]) :
         u \in {<<a, b>>}, v \in {<<c, d>>}})

\* the relational operators of JavaScript: every comparison with NaN is false
Lt(x, y) ==
  The({IF IsNaN(u) \/ IsNaN(v) \/ u = v THEN FALSE
       ELSE IF u = NInf \/ v = PInf THEN TRUE
       ELSE IF u = PInf \/ v = NInf THEN FALSE
       ELSE FracLess(u[1], u[2], v[1], v[2]) :
         u \in {x}, v \in {y}})

Gt(x, y) == Lt(y, x)

Le(x, y) ==
  The({(~IsNaN(u)) /\ (~IsNaN(v)) /\ (u = v \/ Lt(u, v)) : u \in {x}, v \in {y}})

Ge(x, y) == Le(y, x)

\* x === y
Eq(x, y) == The({(~IsNaN(u)) /\ u = v : u \in {x}, v \in {y}})

Neg(x) == The({<<-u[1], u[2]>> : u \in {x}})

Abs(x) == The({<<IAbs(u[1]), u[2]>> : u \in {x}})

Add(x, y) ==
  The({IF IsNaN(u) \/ IsNaN(v) THEN NaN
       ELSE IF IsInf(u) /\ IsInf(v) THEN (IF u = v THEN u ELSE NaN)
       ELSE IF IsInf(u) THEN u
       ELSE IF IsInf(v) THEN v
       ELSE The({Q(u[1] * (v[2] \div g) + v[1] * (u[2] \div g), (u[2] \div g) * v[2]) :
                   g \in {IGcd(u[2], v[2])}}) :
         u \in {x}, v \in {y}})

Sub(x, y) == Add(x, Neg(y))

Mul(x, y) ==
  The({IF IsNaN(u) \/ IsNaN(v) THEN NaN
       ELSE IF IsInf(u) \/ IsInf(v)
            THEN (IF Sign(u) * Sign(v) = 0 THEN NaN ELSE <<Sign(u) * Sign(v), 0>>)
       ELSE The({Q((u[1] \div g1) * (v[1] \div g2), (u[2] \div g2) * (v[2] \div g1)) :
                   g1 \in {IGcd(IAbs(u[1]), v[2])}, g2 \in {IGcd(IAbs(v[1]), u[2])}}) :
         u \in {x}, v \in {y}})

Div(x, y) ==
  The({IF IsNaN(u) \/ IsNaN(v) THEN NaN
       ELSE IF IsInf(u)
            THEN (IF IsInf(v) THEN NaN
                  ELSE <<Sign(u) * (IF Sign(v) < 0 THEN -1 ELSE 1), 0>>)
       ELSE IF IsInf(v) THEN Zero
       ELSE IF v[1] = 0 THEN (IF u[1] = 0 THEN NaN ELSE <<Sign(u), 0>>)
       ELSE Mul(u, IF v[1] < 0 THEN <<-v[2], -v[1]>> ELSE <<v[2], v[1]>>) :
         u \in {x}, v \in {y}})

\* Math.floor
Floor(x) == The({IF IsFinite(u) THEN <<u[1] \div u[2], 1>> ELSE u : u \in {x}})

\* Math.round: to the nearest integer, halves upwards
Round(x) == Floor(Add(x, <<1, 2>>))

\* Math.min and Math.max of two numbers: NaN as soon as one argument is NaN
Min(x, y) ==
  The({IF IsNaN(u) \/ IsNaN(v) THEN NaN ELSE IF Lt(v, u) THEN v ELSE u :
         u \in {x}, v \in {y}})

Max(x, y) ==
  The({IF IsNaN(u) \/ IsNaN(v) THEN NaN ELSE IF Lt(u, v) THEN v ELSE u :
         u \in {x}, v \in {y}})

\* x % y: the remainder of the truncated division, with the dividend's sign
Mod(x, y) ==
  The({IF IsNaN(u) \/ IsNaN(v) \/ IsInf(u) THEN NaN
       ELSE IF IsInf(v) THEN u
       ELSE IF v[1] = 0 THEN NaN
       ELSE The({Mul(<<Sign(u) * (q[1] % q[2]), q[2]>>, Abs(v)) :
                   q \in {Div(Abs(u), Abs(v))}}) :
         u \in {x}, v \in {y}})

\* the largest natural r with r * r <= k, found by bisection: lo * lo <= k < hi * hi
RECURSIVE ISqrtIn(_, _, _)
ISqrtIn(k, lo, hi) ==
  The({IF h - l <= 1 THEN l
       ELSE IF ((l + h) \div 2) * ((l + h) \div 2) <= k
            THEN ISqrtIn(k, (l + h) \div 2, h)
            ELSE ISqrtIn(k, l, (l + h) \div 2) :
         l \in {lo}, h \in {hi}})

ISqrt(k) == ISqrtIn(k, 0, IF k < 46340 THEN k + 1 ELSE 46341)

IsSquare(k) == The({r * r = k : r \in {ISqrt(k)}})

\* resolution of the results of Math.sqrt (when irrational), Math.sin and
\* Math.cos: multiples of 1/Grid
Grid == 8

\* the largest natural k in lo..hi-1 with (k/Grid)^2 <= nn/dd, by bisection
RECURSIVE GridRootIn(_, _, _, _)
GridRootIn(nn, dd, lo, hi) ==
  The({IF h - l <= 1 THEN l
       ELSE IF FracLess(nn, dd, ((l + h) \div 2) * ((l + h) \div 2), Grid * Grid)
            THEN GridRootIn(nn, dd, l, (l + h) \div 2)
            ELSE GridRootIn(nn, dd, (l + h) \div 2, h) :
         l \in {lo}, h \in {hi}})

\* Math.sqrt
Sqrt(x) ==
  The({IF IsNaN(u) \/ Sign(u) < 0 THEN NaN
       ELSE IF u = PInf THEN PInf
       ELSE IF IsSquare(u[1]) /\ IsSquare(u[2]) THEN <<ISqrt(u[1]), ISqrt(u[2])>>
       ELSE The({Q(GridRootIn(u[1], u[2], r * Grid, (r + 1) * Grid), Grid) :
                   r \in {ISqrt(u[1] \div u[2])}}) :
         u \in {x}})

\* Math.hypot of three numbers: +Infinity when one argument is infinite, else
\* NaN when one is NaN, else the square root of the sum of the squares
Hypot(x, y, z) ==
  The({IF IsInf(u) \/ IsInf(v) \/ IsInf(w) THEN PInf
       ELSE IF IsNaN(u) \/ IsNaN(v) \/ IsNaN(w) THEN NaN
       ELSE IF v = Zero /\ w = Zero THEN Abs(u)
       ELSE IF u = Zero /\ w = Zero THEN Abs(v)
       ELSE IF u = Zero /\ v = Zero THEN Abs(w)
       ELSE Sqrt(Add(Add(Mul(u, u), Mul(v, v)), Mul(w, w))) :
         u \in {x}, v \in {y}, w \in {z}})

\* the tolerance 1e-9 of the source
Tol == <<1, 1000000000>>

\* Math.PI
PI == <<25, 8>>

\* the multiple of 1/Grid nearest to the finite number x
ToGrid(x) == Q(Round(Mul(x, Int2Num(Grid)))[1], Grid)

\* Bhaskara's approximation of sin(PI * w) for 0 <= w <= 1
Bhaskara(w) ==
  The({Div(Mul(Int2Num(16), p), Sub(Int2Num(5), Mul(Int2Num(4), p))) :
         p \in {Mul(w, Sub(One, w))}})

\* sin(PI * u) for 0 <= u < 2
SinTurn(u) ==
  IF Le(u, One) THEN Bhaskara(u) ELSE Neg(Bhaskara(Sub(u, One)))

\* Math.sin
Sin(x) ==
  The({IF ~IsFinite(v) THEN NaN
       ELSE The({ToGrid(Mul(Int2Num(Sign(v)), SinTurn(u))) :
                   u \in {Mod(Div(Abs(v), PI), Two)}}) :
         v \in {x}})

\* Math.cos
Cos(x) == Sin(Add(Abs(x), Div(PI, Two)))

\* the fractional digits a template literal prints at most
MaxDigits == 16

\* the decimal digits of r/d (0 <= r < d), at most k of them
RECURSIVE Digits(_, _, _)
Digits(r, d, k) ==
  IF r = 0 \/ k = 0 THEN ""
  ELSE ToString((10 * r) \div d) \o Digits((10 * r) % d, d, k - 1)

\* `${x}`: the text of a number in a template literal, for the magnitudes
\* printed in positional notation (zero, or from 1e-6 up to 1e21)
Format(x) ==
  IF IsNaN(x) THEN "NaN"
  ELSE IF x = PInf THEN "Infinity"
  ELSE IF x = NInf THEN "-Infinity"
  ELSE (IF x[1] < 0 THEN "-" ELSE "") \o ToString(IAbs(x[1]) \div x[2]) \o
       (IF IAbs(x[1]) % x[2] = 0 THEN ""
        ELSE "." \o Digits(IAbs(x[1]) % x[2], x[2], MaxDigits))

(***************************************************************************)
(* lissajous (src/unnamed/part_001)                                        *)
(***************************************************************************)
\* the loop of gcd: while (b > tol) { temp = b; b = a % b; a = temp }
RECURSIVE gcdLoop(_, _)
gcdLoop(a, b) ==
  The({IF Gt(v, Tol) THEN gcdLoop(v, Mod(u, v)) ELSE u : u \in {a}, v \in {b}})

gcd(a0, b0) ==
  The({IF Lt(a, Tol) THEN b ELSE IF Lt(b, Tol) THEN a ELSE gcdLoop(a, b) :
         a \in {Abs(a0)}, b \in {Abs(b0)}})

\* nums.reduce((acc, n) => gcd(acc, n), acc)
RECURSIVE gcdReduce(_, _)
gcdReduce(acc, nums) ==
  The({IF ns = <<>> THEN acc ELSE gcdReduce(gcd(acc, Head(ns)), Tail(ns)) :
         ns \in {nums}})

gcdMultiple(nums) == gcdReduce(Zero, nums)

\* a collection that takes every axis of non-zero amplitude and frequency
activeFreqsNonZero(params) ==
  (IF params.A # Zero /\ params.a # Zero THEN <<params.a>> ELSE <<>>) \o
  (IF params.B # Zero /\ params.b # Zero THEN <<params.b>> ELSE <<>>) \o
  (IF params.C # Zero /\ params.c # Zero THEN <<params.c>> ELSE <<>>)

\* the frequencies calculateCycleDuration collects, in the order a, b, c
activeFreqs(params) ==
  (IF Gt(params.A, Zero) /\ Gt(params.a, Zero) THEN <<params.a>> ELSE <<>>) \o
  (IF Gt(params.B, Zero) /\ Gt(params.b, Zero) THEN <<params.b>> ELSE <<>>) \o
  (IF Gt(params.C, Zero) /\ Gt(params.c, Zero) THEN <<params.c>> ELSE <<>>)

\* the end of calculateCycleDuration, once freqGcd is known
cycleMultiplier(params, freqGcd) ==
  IF Lt(freqGcd, Tol) THEN params.duration
  ELSE Mul(params.duration, Div(One, freqGcd))

calculateCycleDuration(params) ==
  The({IF Len(freqs) = 0 THEN params.duration
       ELSE The({cycleMultiplier(params, freqGcd) : freqGcd \in {gcdMultiple(freqs)}}) :
         freqs \in {activeFreqs(params)}})

\* a getPlotTime that adds ramp_duration as it is
LissajousGetPlotTimeUnclamped(params) ==
  IF ~Gt(params.duration, Zero) THEN Zero
  ELSE Add(params.ramp_duration, calculateCycleDuration(params))

\* a getPlotTime that takes the magnitude of the duration
LissajousGetPlotTimeOfMagnitude(params) ==
  IF Eq(params.duration, Zero) \/ IsNaN(params.duration) THEN Zero
  ELSE Add(Max(Zero, params.ramp_duration),
           calculateCycleDuration([params EXCEPT !.duration = Abs(params.duration)]))

\* lissajous.getPlotTime
LissajousGetPlotTime(params) ==
  IF ~Gt(params.duration, Zero) THEN Zero
  ELSE Add(Max(Zero, params.ramp_duration), calculateCycleDuration(params))

\* lissajous.getCycleDuration
LissajousGetCycleDuration(params) == calculateCycleDuration(params)

\* a hasSingularity that returns false for every ramp_duration other than 0
LissajousHasSingularityAtZero(params) ==
  IF ~Eq(params.ramp_duration, Zero) THEN FALSE
  ELSE The({Gt(Hypot(Mul(Mul(params.A, params.a), d_progress),
                     Mul(Mul(params.B, params.b), d_progress),
                     Mul(Mul(params.C, params.c), d_progress)), Tol) :
              d_progress \in {Div(Mul(Two, PI), params.duration)}})

\* lissajous.hasSingularity
LissajousHasSingularity(params) ==
  IF Gt(params.ramp_duration, Zero) THEN FALSE
  ELSE The({Gt(Hypot(Mul(Mul(params.A, params.a), d_progress),
                     Mul(Mul(params.B, params.b), d_progress),
                     Mul(Mul(params.C, params.c), d_progress)), Tol) :
              d_progress \in {Div(Mul(Two, PI), params.duration)}})

\* evaluate: progress, d_progress and dd_progress, once time_velocity is known
LissajousProgress(time, params, time_velocity) ==
  [progress |->
     Div(Mul(Add(Div(Mul(time_velocity, Min(time, params.ramp_duration)), Two),
                 Max(Zero, Sub(time, params.ramp_duration))),
             Mul(Two, PI)),
         params.duration),
   d_progress |-> Div(Mul(Mul(Two, PI), time_velocity), params.duration),
   dd_progress |->
     IF Gt(params.ramp_duration, Zero) /\ Lt(time, params.ramp_duration)
     THEN Div(Mul(Two, PI), Mul(params.ramp_duration, params.duration))
     ELSE Zero]

\* evaluate: position, velocity and acceleration along one axis, of amplitude
\* amp and frequency f, from the sine and the cosine of f * progress
LissajousAxisOf(amp, f, p, sin, cos) ==
  [pos |-> Mul(amp, sin),
   vel |-> Mul(Mul(Mul(amp, cos), f), p.d_progress),
   acc |-> Mul(Mul(amp, f),
               Add(Mul(Mul(Mul(Neg(f), sin), p.d_progress), p.d_progress),
                   Mul(cos, p.dd_progress)))]

LissajousAxis(amp, f, p) ==
  The({LissajousAxisOf(amp, f, p, sin, cos) :
         sin \in {Sin(Mul(f, p.progress))}, cos \in {Cos(Mul(f, p.progress))}})

\* evaluate: the record it returns, from the three axes x, y, z
LissajousState(axes) ==
  [x |-> axes[1].pos, y |-> axes[2].pos, z |-> axes[3].pos,
   vx |-> axes[1].vel, vy |-> axes[2].vel, vz |-> axes[3].vel,
   speed |-> Hypot(axes[1].vel, axes[2].vel, axes[3].vel),
   ax |-> axes[1].acc, ay |-> axes[2].acc, az |-> axes[3].acc,
   accel |-> Hypot(axes[1].acc, axes[2].acc, axes[3].acc)]

\* the pairs (amplitude, frequency) of the axes x, y, z
LissajousAxes(params) ==
  <<<<params.A, params.a>>, <<params.B, params.b>>, <<params.C, params.c>>>>

\* lissajous.evaluate
LissajousEvaluate(time, params) ==
  The({The({The({LissajousState(axes) :
                   axes \in {ArrayOf([k \in 1..3 |->
                                        LissajousAxis(LissajousAxes(params)[k][1],
                                                      LissajousAxes(params)[k][2], p)])}}) :
              p \in {LissajousProgress(time, params, time_velocity)}}) :
         time_velocity \in
           {IF Gt(params.ramp_duration, Zero)
            THEN Div(Min(time, params.ramp_duration), params.ramp_duration)
            ELSE One}})

\* a step count without the lower bound of one step
StepCountFromZero(horizon, d) == Floor(Div(horizon, d))

\* simulate: Math.max(1, Math.floor(plotTime / dt))
StepCount(horizon, d) == Max(One, Floor(Div(horizon, d)))

\* a sample time that is not clamped to the horizon
SampleTimeUnclamped(k, d, horizon) == Mul(Int2Num(k), d)

\* simulate: Math.min(i * dt, plotTime)
SampleTime(k, d, horizon) == Min(Mul(Int2Num(k), d), horizon)

\* a command line that gives ramp_duration before duration
LissajousGetCommandRampFirst(params) ==
  "mc_raptor intref lissajous " \o Format(params.A) \o " " \o Format(params.B) \o " " \o
  Format(params.C) \o " " \o Format(params.a) \o " " \o Format(params.b) \o " " \o
  Format(params.c) \o " " \o Format(params.ramp_duration) \o " " \o
  Format(params.duration)

\* lissajous.getCommand
LissajousGetCommand(params) ==
  "mc_raptor intref lissajous " \o Format(params.A) \o " " \o Format(params.B) \o " " \o
  Format(params.C) \o " " \o Format(params.a) \o " " \o Format(params.b) \o " " \o
  Format(params.c) \o " " \o Format(params.duration) \o " " \o
  Format(params.ramp_duration)

\* a sample that carries t and the state evaluated at time 0
LissajousSampleAtStart(t, params) ==
  The({[t |-> t, x |-> state.x, y |-> state.y, z |-> state.z,
        vx |-> state.vx, vy |-> state.vy, vz |-> state.vz, speed |-> state.speed,
        ax |-> state.ax, ay |-> state.ay, az |-> state.az, accel |-> state.accel] :
         state \in {LissajousEvaluate(Zero, params)}})

\* data.push({ t, ...state })
LissajousSample(t, params) ==
  The({[t |-> t, x |-> state.x, y |-> state.y, z |-> state.z,
        vx |-> state.vx, vy |-> state.vy, vz |-> state.vz, speed |-> state.speed,
        ax |-> state.ax, ay |-> state.ay, az |-> state.az, accel |-> state.accel] :
         state \in {LissajousEvaluate(t, params)}})

(***************************************************************************)
(* langevin (src/src/trajectories/langevin.js)                             *)
(***************************************************************************)
\* a getPlotTime that takes the magnitude of the duration
LangevinGetPlotTimeMagnitude(params) == Abs(params.duration)

\* langevin.getPlotTime
LangevinGetPlotTime(params) ==
  IF Gt(params.duration, Zero) THEN params.duration ELSE Zero

\* langevin.hasSingularity
LangevinHasSingularity(params) == FALSE

\* an evaluate that returns the origin instead of throwing
LangevinEvaluateOrigin(time, params) ==
  [raised |-> FALSE,
   value |-> [x |-> Zero, y |-> Zero, z |-> Zero, vx |-> Zero, vy |-> Zero, vz |-> Zero,
              speed |-> Zero, ax |-> Zero, ay |-> Zero, az |-> Zero, accel |-> Zero]]

\* langevin.evaluate: it throws, whatever its arguments
LangevinEvaluate(time, params) ==
  [raised |-> TRUE,
   value |-> "Langevin dynamics requires simulation, not point evaluation"]

\* langevin.getCommand
LangevinGetCommand(params) ==
  "mc_raptor intref langevin " \o Format(params.gamma) \o " " \o Format(params.omega) \o
  " " \o Format(params.sigma) \o " " \o Format(params.alpha) \o " " \o
  Format(params.duration)

\* a smoothing that advances the position with the smoothed velocity of the
\* step before
LangevinSmoothLagging(st, params, dt, x_next, v_next) ==
  The({[pos_raw |-> x_next, vel_raw |-> v_next,
        pos |-> Add(st.pos, Mul(st.vel, dt)), vel |-> v_smooth] :
         v_smooth \in {Add(Mul(params.alpha, v_next),
                           Mul(Sub(One, params.alpha), st.vel))}})

\* the smoothed state of a dimension from its raw state after the step
LangevinSmooth(st, params, dt, x_next, v_next) ==
  The({[pos_raw |-> x_next, vel_raw |-> v_next,
        pos |-> Add(st.pos, Mul(v_smooth, dt)), vel |-> v_smooth] :
         v_smooth \in {Add(Mul(params.alpha, v_next),
                           Mul(Sub(One, params.alpha), st.vel))}})

\* an update whose noise term is not scaled by sigma
LangevinDimUnscaledNoise(st, params, dt, normal) ==
  The({LangevinSmooth(st, params, dt, Add(st.pos_raw, Mul(v_next, dt)), v_next) :
         v_next \in
           {Add(Add(st.vel_raw,
                    Mul(Sub(Mul(Neg(params.gamma), st.vel_raw),
                            Mul(Mul(params.omega, params.omega), st.pos_raw)), dt)),
                Mul(Sqrt(dt), normal))}})

\* the update of one dimension in one integration step: st is the state of the
\* dimension before the step, normal the variate normalRandom() returned
LangevinDim(st, params, dt, normal) ==
  The({LangevinSmooth(st, params, dt, Add(st.pos_raw, Mul(v_next, dt)), v_next) :
         v_next \in
           {Add(Add(st.vel_raw,
                    Mul(Sub(Mul(Neg(params.gamma), st.vel_raw),
                            Mul(Mul(params.omega, params.omega), st.pos_raw)), dt)),
                Mul(params.sigma, Mul(Sqrt(dt), normal)))}})

\* a start with a smoothed velocity of 1
LangevinDimMoving == [pos_raw |-> Zero, vel_raw |-> Zero, pos |-> Zero, vel |-> One]

\* the state of one dimension at the start of a realization
LangevinDim0 == [pos_raw |-> Zero, vel_raw |-> Zero, pos |-> Zero, vel |-> Zero]

\* the point stored before the first step
LangevinInitialPoint ==
  [t |-> Zero, x |-> LangevinDim0.pos, y |-> LangevinDim0.pos, z |-> LangevinDim0.pos,
   vx |-> LangevinDim0.vel, vy |-> LangevinDim0.vel, vz |-> LangevinDim0.vel,
   speed |-> Zero, ax |-> Zero, ay |-> Zero, az |-> Zero, accel |-> Zero]

\* a point that reports the raw position and velocity
LangevinPointOfRaw(t, dims, acc) ==
  [t |-> t, x |-> dims[1].pos_raw, y |-> dims[2].pos_raw, z |-> dims[3].pos_raw,
   vx |-> dims[1].vel_raw, vy |-> dims[2].vel_raw, vz |-> dims[3].vel_raw,
   speed |-> Hypot(dims[1].vel, dims[2].vel, dims[3].vel),
   ax |-> acc[1], ay |-> acc[2], az |-> acc[3],
   accel |-> Hypot(acc[1], acc[2], acc[3])]

\* the point stored after a step: dims is the state of the three dimensions
\* after the step, acc the three accelerations
LangevinPointOf(t, dims, acc) ==
  [t |-> t, x |-> dims[1].pos, y |-> dims[2].pos, z |-> dims[3].pos,
   vx |-> dims[1].vel, vy |-> dims[2].vel, vz |-> dims[3].vel,
   speed |-> Hypot(dims[1].vel, dims[2].vel, dims[3].vel),
   ax |-> acc[1], ay |-> acc[2], az |-> acc[3],
   accel |-> Hypot(acc[1], acc[2], acc[3])]

\* vel_prev holds the smoothed velocities before the step
LangevinPoint(t, dims, vel_prev, dt) ==
  The({LangevinPointOf(t, dims, acc) :
         acc \in {ArrayOf([k \in 1..3 |-> Div(Sub(dims[k].vel, vel_prev[k]), dt)])}})

(***************************************************************************)
(* registry and aggregator (src/unnamed/part_002)                          *)
(***************************************************************************)
\* the own properties of the object literal `trajectories`
trajectories == {"lissajous", "langevin"}

\* the ids of trajectoryList, in its order
trajectoryList == <<"lissajous", "langevin">>

\* `trajectories` is a plain object literal, so trajectories[id] also finds
\* the properties it inherits from Object.prototype
ObjectPrototype ==
  {"constructor", "toString", "toLocaleString", "valueOf", "hasOwnProperty",
   "isPrototypeOf", "propertyIsEnumerable", "__proto__"}

\* trajectories[id]
Lookup(id) ==
  IF id \in trajectories THEN [kind |-> "model", id |-> id]
  ELSE IF id \in ObjectPrototype THEN [kind |-> "inherited", id |-> id]
  ELSE [kind |-> "undefined", id |-> ""]

\* getTrajectory: trajectories[id] || null
getTrajectory(id) ==
  The({IF found.kind = "undefined" THEN [kind |-> "null", id |-> ""] ELSE found :
         found \in {Lookup(id)}})

\* vs.reduce((a, b) => a + b, acc): the sum, from the left
RECURSIVE ReduceAdd(_, _)
ReduceAdd(acc, vs) ==
  IF vs = <<>> THEN acc ELSE ReduceAdd(Add(acc, Head(vs)), Tail(vs))

\* Math.min(...vs) and Math.max(...vs)
RECURSIVE MinOf(_)
MinOf(vs) == IF vs = <<>> THEN PInf ELSE Min(Head(vs), MinOf(Tail(vs)))

RECURSIVE MaxOf(_)
MaxOf(vs) == IF vs = <<>> THEN NInf ELSE Max(Head(vs), MaxOf(Tail(vs)))

\* (v - mean) ** 2
SquaredDeviation(v, mean) == The({Mul(d, d) : d \in {Sub(v, mean)}})

\* vs.reduce((sum, v) => sum + (v - mean) ** 2, acc)
RECURSIVE ReduceSquares(_, _, _)
ReduceSquares(acc, vs, mean) ==
  IF vs = <<>> THEN acc
  ELSE ReduceSquares(Add(acc, SquaredDeviation(Head(vs), mean)), Tail(vs), mean)

\* the trajectories that have a point at index i, in batch order
RowsAt(trajectoryData, i) ==
  SelectSeq(trajectoryData, LAMBDA traj : i <= Len(traj))

\* a record for a single trajectory's point whose deviations copy the value
SingleRecordSpread(point) ==
  [t |-> point.t, x |-> point.x, y |-> point.y,
   speed |-> point.speed, speedMin |-> point.speed, speedMax |-> point.speed,
   speedMean |-> point.speed, speedStd |-> point.speed,
   accel |-> point.accel, accelMin |-> point.accel, accelMax |-> point.accel,
   accelMean |-> point.accel, accelStd |-> point.accel]

\* the record computeStats builds for a single trajectory's point
SingleRecord(point) ==
  [t |-> point.t, x |-> point.x, y |-> point.y,
   speed |-> point.speed, speedMin |-> point.speed, speedMax |-> point.speed,
   speedMean |-> point.speed, speedStd |-> Zero,
   accel |-> point.accel, accelMin |-> point.accel, accelMax |-> point.accel,
   accelMean |-> point.accel, accelStd |-> Zero]

\* a series whose band is upside down: the deviation is added for the lower
\* edge and subtracted for the upper one
SeriesOfSwappedBand(vs, mean) ==
  The({[min |-> MinOf(vs), max |-> MaxOf(vs), mean |-> mean, std |-> std,
        lower |-> Add(mean, std), upper |-> Sub(mean, std)] :
         std \in {Sqrt(Div(ReduceSquares(Zero, vs, mean), Int2Num(Len(vs))))}})

\* a series whose standard deviation is the sample one: the squared
\* deviations are divided by N - 1
SeriesOfSample(vs, mean) ==
  The({[min |-> MinOf(vs), max |-> MaxOf(vs), mean |-> mean, std |-> std,
        lower |-> Sub(mean, std), upper |-> Add(mean, std)] :
         std \in {Sqrt(Div(ReduceSquares(Zero, vs, mean), Int2Num(Len(vs) - 1)))}})

\* minimum, maximum, mean, standard deviation and band of the values vs
\* collected at one time step, once their mean is known
SeriesOf(vs, mean) ==
  The({[min |-> MinOf(vs), max |-> MaxOf(vs), mean |-> mean, std |-> std,
        lower |-> Sub(mean, std), upper |-> Add(mean, std)] :
         std \in {Sqrt(Div(ReduceSquares(Zero, vs, mean), Int2Num(Len(vs))))}})

Series(vs) ==
  The({SeriesOf(vs, mean) : mean \in {Div(ReduceAdd(Zero, vs), Int2Num(Len(vs)))}})

\* the record computeStats pushes, from the statistics of the speeds and of
\* the accelerations
StatsOf(t, speed, accel) ==
  [t |-> t,
   speedMin |-> speed.min, speedMax |-> speed.max,
   speedMean |-> speed.mean, speedStd |-> speed.std,
   speedLower |-> speed.lower, speedUpper |-> speed.upper,
   accelMin |-> accel.min, accelMax |-> accel.max,
   accelMean |-> accel.mean, accelStd |-> accel.std,
   accelLower |-> accel.lower, accelUpper |-> accel.upper]

\* the record computeStats builds at time index i of several trajectories
StatsRecord(trajectoryData, i) ==
  The({The({StatsOf(trajectoryData[1][i].t, speed, accel) :
              speed \in {Series(ArrayOf([k \in 1..Len(rows) |-> rows[k][i].speed]))},
              accel \in {Series(ArrayOf([k \in 1..Len(rows) |-> rows[k][i].accel]))}}) :
         rows \in {RowsAt(trajectoryData, i)}})

\* a computeStats whose loop over the time steps starts at the second one
computeStatsFromSecond(missing, trajectoryData) ==
  IF missing \/ Len(trajectoryData) = 0 THEN <<>>
  ELSE IF Len(trajectoryData) = 1
       THEN ArrayOf([i \in 1..(Len(trajectoryData[1]) - 1) |->
                       SingleRecord(trajectoryData[1][i + 1])])
  ELSE ArrayOf([i \in 1..(Len(trajectoryData[1]) - 1) |->
                  StatsRecord(trajectoryData, i + 1)])

\* computeStats; missing says that the argument is null or undefined
computeStats(missing, trajectoryData) ==
  IF missing \/ Len(trajectoryData) = 0 THEN <<>>
  ELSE IF Len(trajectoryData) = 1
       THEN ArrayOf([i \in 1..Len(trajectoryData[1]) |->
                       SingleRecord(trajectoryData[1][i])])
  ELSE ArrayOf([i \in 1..Len(trajectoryData[1]) |-> StatsRecord(trajectoryData, i)])

(***************************************************************************)
(* Inputs of the operations                                                *)
(***************************************************************************)
\* a positive number below the tolerance 1e-9
Tiny == <<1, 2000000000>>

\* lissajous.defaultParams and langevin.defaultParams
lissajousDefaultParams ==
  [A |-> Q(1, 2), B |-> One, C |-> Zero, a |-> Two, b |-> One, c |-> One,
   duration |-> Int2Num(10), ramp_duration |-> Int2Num(3)]

langevinDefaultParams ==
  [gamma |-> Q(1, 2), omega |-> One, sigma |-> Q(3, 10), alpha |-> Q(1, 10),
   duration |-> Int2Num(20)]

\* defaultParams of the model with this id
DefaultParams(m) == IF m = "lissajous" THEN lissajousDefaultParams ELSE langevinDefaultParams

Models == {"lissajous", "langevin"}

\* the ids getTrajectory is called with
Ids ==
  {"lissajous", "langevin", "", "Lissajous", "circle", "lissajous ",
   "constructor", "toString", "hasOwnProperty", "__proto__"}

\* parameter sets of the calls of lissajous.getPlotTime and getCycleDuration
CycleParams ==
  { [A |-> pA, B |-> pB, C |-> pC, a |-> fa, b |-> fb, c |-> fc,
     duration |-> d, ramp_duration |-> r] :
      pA \in {Neg(One), Zero, Q(1, 2)}, pB \in {Zero, One}, pC \in {Zero, One},
      fa \in {Neg(One), Zero, Tiny, Two, Q(3, 2)}, fb \in {Tiny, One, Int2Num(3)},
      fc \in {Zero, One},
      d \in {Neg(One), Zero, Int2Num(10), NaN, PInf},
      r \in {Neg(One), Zero, Int2Num(3), NaN} }
  \cup
  { [A |-> One, B |-> Zero, C |-> Zero, a |-> fa, b |-> One, c |-> One,
     duration |-> d, ramp_duration |-> r] :
      fa \in {Tol, Tiny}, d \in {One, Two}, r \in {Zero, Int2Num(3)} }

\* parameter sets of the calls of lissajous.hasSingularity
SingularityParams ==
  { [A |-> pA, B |-> pB, C |-> Zero, a |-> fa, b |-> One, c |-> One,
     duration |-> d, ramp_duration |-> r] :
      pA \in {Neg(One), Zero, Q(1, 2), NaN}, pB \in {Zero, One}, fa \in {Zero, Two},
      d \in {Neg(One), Zero, Int2Num(10), NaN, PInf},
      r \in {Neg(One), Zero, Q(1, 4), Int2Num(3), NaN, PInf} }
  \cup
  { [A |-> Tiny, B |-> Zero, C |-> Zero, a |-> fa, b |-> One, c |-> One,
     duration |-> Mul(Two, PI), ramp_duration |-> r] :
      fa \in {One, Two, Int2Num(3)}, r \in {Zero, Neg(One), One} }

\* parameter sets of the calls of simulate and evaluate
LissajousSimParams ==
  { [lissajousDefaultParams EXCEPT !.duration = d, !.ramp_duration = r] :
      d \in {Int2Num(10), Zero, Neg(One), NaN, PInf},
      r \in {Int2Num(3), Zero} }

LangevinSimParams ==
  { [gamma |-> Q(1, 2), omega |-> One, sigma |-> sg, alpha |-> al, duration |-> d] :
      sg \in {Zero, One}, al \in {Q(1, 2), One},
      d \in {Two, Zero, Neg(One), NaN, PInf} }

LangevinParams ==
  LangevinSimParams \cup
  { [langevinDefaultParams EXCEPT !.duration = d] :
      d \in {Int2Num(20), One, Zero, Neg(One), NaN, PInf} }

SimParams(m) == IF m = "lissajous" THEN LissajousSimParams ELSE LangevinSimParams

PlotParams(m) == IF m = "lissajous" THEN CycleParams ELSE LangevinParams

HasSingularityParams(m) ==
  IF m = "lissajous" THEN SingularityParams ELSE LangevinParams

\* parameter sets of the calls of getCommand
CommandParams(m) ==
  IF m = "lissajous"
  THEN { [lissajousDefaultParams EXCEPT !.A = pA, !.c = fc, !.duration = d,
                                        !.ramp_duration = r] :
           pA \in {Q(1, 2), Neg(One), Q(5, 4), NaN}, fc \in {One, Q(1, 3)},
           d \in {Int2Num(10), Zero, Q(-5, 2), PInf, NInf},
           r \in {Int2Num(3), Zero, Q(1, 8)} }
  ELSE LangevinParams

\* the time steps simulate is called with
Dts ==
  {One, Q(3, 2), Int2Num(4), Int2Num(5), Int2Num(20), Zero, Neg(One), NaN, PInf}

\* the pairs of a parameter set and a time step simulate is called with
SimInputs(m) ==
  IF m = "lissajous"
  THEN LissajousSimParams \X (Dts \ {One})
  ELSE { pd \in LangevinSimParams \X Dts :
           pd[1].duration = PInf => pd[2] \in {One, Zero, NaN, PInf} }

\* the times evaluate is called with
Times == {Zero, One, Int2Num(3), Int2Num(5), NaN}

\* the values normalRandom() returns in one integration step, one per dimension
NormalTriples == {<<Zero, Zero, Zero>>, <<One, Neg(One), Two>>}

\* the largest nSamples simulate is called with
MaxSamples == 2

\* the iterations the model follows of an inner loop of simulate that has no
\* end (steps is Infinity): the loop goes on after them, and the model no
\* longer keeps its samples nor counts its iterations
MaxSteps == 3

\* synthetic batches handed to computeStats: up to MaxBatch trajectories of up
\* to MaxLen points each, of any mix of lengths
MaxBatch == 2
MaxLen == 2

SynthPoints ==
  { [speed |-> One, accel |-> Int2Num(3)], [speed |-> Int2Num(4), accel |-> Zero] }

SynthSample(k, pt) ==
  [t |-> Int2Num(k - 1), x |-> Zero, y |-> Zero, z |-> Zero,
   vx |-> pt.speed, vy |-> Zero, vz |-> Zero, speed |-> pt.speed,
   ax |-> pt.accel, ay |-> Zero, az |-> Zero, accel |-> pt.accel]

SynthTrajectories ==
  UNION { { [k \in 1..len |-> SynthSample(k, f[k])] : f \in [1..len -> SynthPoints] } :
          len \in 0..MaxLen }

SynthBatches ==
  UNION { [1..size -> SynthTrajectories] : size \in 0..MaxBatch }

\* the batch of two trajectories of one sample each, of speeds 1 and 2 and of
\* accelerations 3 and 1
ExampleBatches ==
  { << <<SynthSample(1, [speed |-> One, accel |-> Int2Num(3)])>>,
       <<SynthSample(1, [speed |-> Two, accel |-> One])>> >> }

(***************************************************************************)
(* State: one call of an operation of the engine at a time.  A call of     *)
(* simulate runs through its two loops step by step; every other           *)
(* operation returns (or throws) in one step.                              *)
(***************************************************************************)
VARIABLES
  op,               \* the operation called last
  pc,               \* "idle": it has returned or thrown; "outer", "inner": in simulate's loops
  model,            \* the model it was called on ("" for the registry functions)
  id,               \* getTrajectory's argument
  params,           \* the parameter set passed
  time,             \* evaluate's argument
  dt,               \* simulate's time step
  nSamples,         \* simulate's number of realizations
  result,           \* the value returned
  raised,           \* the operation threw
  calls,            \* the methods of the models entered since the call began
  plotTime,         \* simulate's locals
  steps,
  n,
  i,
  data,
  simTrajectories,
  dims,             \* langevin: pos_raw, vel_raw, pos and vel, per dimension
  variates,         \* langevin: what normalRandom() returned, call after call
  trajectoryData,   \* computeStats's argument
  missing,          \* that argument is null
  fromSimulate,     \* that argument is the batch the last simulate returned
  stats,            \* what computeStats returned
  trajectoryId,     \* TrajectoryTuner: the state of the component ...
  uiParams,         \* ... params
  uiNSamples,       \* ... nSamples
  uiT,              \* ... t
  trajectory,       \* its memo `trajectory` in the last render (the id of the model)
  uiPlotTime,       \* its memo `plotTime` in the last render
  pending,          \* the effects the last render scheduled, not yet run
  event             \* the last event of the user

vars ==
  <<op, pc, model, id, params, time, dt, nSamples, result, raised, calls,
    plotTime, steps, n, i, data, simTrajectories, dims, variates,
    trajectoryData, missing, fromSimulate, stats,
    trajectoryId, uiParams, uiNSamples, uiT, trajectory, uiPlotTime, pending, event>>

args == <<model, id, params, time, dt, nSamples>>
locals == <<plotTime, steps, n, i, data, simTrajectories, dims, variates>>
aggr == <<trajectoryData, missing, fromSimulate, stats>>
engine == <<op, pc, raised, result, calls, args, locals, aggr>>
tuner == <<trajectoryId, uiParams, uiNSamples, uiT, trajectory, uiPlotTime, pending, event>>

\* the call of operation o on model m with the arguments given
Call(o, m, s, p, tm, d, k) ==
  /\ op' = o
  /\ model' = m
  /\ id' = s
  /\ params' = p
  /\ time' = tm
  /\ dt' = d
  /\ nSamples' = k

\* the operation returns v, having entered the methods c
Return(v, c) ==
  /\ result' = v
  /\ raised' = FALSE
  /\ calls' = c
  /\ pc' = "idle"

\* the operation throws, having entered the methods c
Throw(c) ==
  /\ result' = <<>>
  /\ raised' = TRUE
  /\ calls' = c
  /\ pc' = "idle"

NoLocals ==
  /\ plotTime' = NaN
  /\ steps' = NaN
  /\ n' = 0
  /\ i' = 0
  /\ data' = <<>>
  /\ simTrajectories' = <<>>
  /\ dims' = <<>>
  /\ variates' = <<>>

NoAggr ==
  /\ trajectoryData' = <<>>
  /\ missing' = FALSE
  /\ fromSimulate' = FALSE
  /\ stats' = <<>>

Init ==
  /\ op = "none"
  /\ pc = "idle"
  /\ model = ""
  /\ id = ""
  /\ params = <<>>
  /\ time = NaN
  /\ dt = NaN
  /\ nSamples = 0
  /\ result = <<>>
  /\ raised = FALSE
  /\ calls = {}
  /\ plotTime = NaN
  /\ steps = NaN
  /\ n = 0
  /\ i = 0
  /\ data = <<>>
  /\ simTrajectories = <<>>
  /\ dims = <<>>
  /\ variates = <<>>
  /\ trajectoryData = <<>>
  /\ missing = FALSE
  /\ fromSimulate = FALSE
  /\ stats = <<>>
  /\ trajectoryId = trajectoryList[1]
  /\ uiParams = lissajousDefaultParams
  /\ uiNSamples = Int2Num(10)
  /\ uiT = Zero
  /\ trajectory = trajectoryList[1]
  /\ uiPlotTime = LissajousGetPlotTime(lissajousDefaultParams)
  /\ pending = {}
  /\ event = [kind |-> "mount", finite |-> TRUE, changed |-> FALSE]

\* getTrajectory(s)
GetTrajectory ==
  /\ pc = "idle"
  /\ op = "none"
  /\ \E s \in Ids :
       /\ Call("getTrajectory", "", s, <<>>, NaN, NaN, 0)
       /\ Return(getTrajectory(s), {})
  /\ NoLocals
  /\ NoAggr
  /\ UNCHANGED tuner

\* m.getPlotTime(p)
GetPlotTime ==
  /\ pc = "idle"
  /\ op = "none"
  /\ \E m \in Models : \E p \in PlotParams(m) :
       /\ Call("getPlotTime", m, "", p, NaN, NaN, 0)
       /\ Return(IF m = "lissajous" THEN LissajousGetPlotTime(p)
                                    ELSE LangevinGetPlotTime(p),
                 {<<m, "getPlotTime">>})
  /\ NoLocals
  /\ NoAggr
  /\ UNCHANGED tuner

\* lissajous.getCycleDuration(p)
GetCycleDuration ==
  /\ pc = "idle"
  /\ op = "none"
  /\ \E p \in CycleParams :
       /\ Call("getCycleDuration", "lissajous", "", p, NaN, NaN, 0)
       /\ Return(calculateCycleDuration(p), {<<"lissajous", "getCycleDuration">>})
  /\ NoLocals
  /\ NoAggr
  /\ UNCHANGED tuner

\* m.hasSingularity(p)
HasSingularity ==
  /\ pc = "idle"
  /\ op = "none"
  /\ \E m \in Models : \E p \in HasSingularityParams(m) :
       /\ Call("hasSingularity", m, "", p, NaN, NaN, 0)
       /\ Return(IF m = "lissajous" THEN LissajousHasSingularity(p)
                                    ELSE LangevinHasSingularity(p),
                 {<<m, "hasSingularity">>})
  /\ NoLocals
  /\ NoAggr
  /\ UNCHANGED tuner

\* m.evaluate(tm, p)
Evaluate ==
  /\ pc = "idle"
  /\ op = "none"
  /\ \E m \in Models : \E tm \in Times : \E p \in SimParams(m) :
       /\ Call("evaluate", m, "", p, tm, NaN, 0)
       /\ IF m = "lissajous"
          THEN Return(LissajousEvaluate(tm, p), {<<m, "evaluate">>})
          ELSE IF LangevinEvaluate(tm, p).raised
               THEN Throw({<<m, "evaluate">>})
               ELSE Return(LangevinEvaluate(tm, p).value, {<<m, "evaluate">>})
  /\ NoLocals
  /\ NoAggr
  /\ UNCHANGED tuner

\* m.getCommand(p)
GetCommand ==
  /\ pc = "idle"
  /\ op = "none"
  /\ \E m \in Models : \E p \in CommandParams(m) :
       /\ Call("getCommand", m, "", p, NaN, NaN, 0)
       /\ Return(IF m = "lissajous" THEN LissajousGetCommand(p)
                                    ELSE LangevinGetCommand(p),
                 {<<m, "getCommand">>})
  /\ NoLocals
  /\ NoAggr
  /\ UNCHANGED tuner

\* m.simulate(p, d, k): up to the first test of the outer loop
Simulate ==
  /\ pc = "idle"
  /\ op = "none"
  /\ \E m \in Models : \E pd \in SimInputs(m) : \E k \in 0..MaxSamples :
       \E pt \in {IF m = "lissajous" THEN LissajousGetPlotTime(pd[1])
                                     ELSE LangevinGetPlotTime(pd[1])} :
         /\ Call("simulate", m, "", pd[1], NaN, pd[2], k)
         /\ calls' = {<<m, "simulate">>, <<m, "getPlotTime">>}
         /\ plotTime' = pt
         /\ IF Le(pt, Zero)
            THEN /\ pc' = "idle"
                 /\ result' = <<>>
                 /\ steps' = NaN
            ELSE /\ pc' = "outer"
                 /\ result' = <<>>
                 /\ steps' = StepCount(pt, pd[2])
  /\ raised' = FALSE
  /\ n' = 0
  /\ i' = 0
  /\ data' = <<>>
  /\ simTrajectories' = <<>>
  /\ dims' = <<>>
  /\ variates' = <<>>
  /\ NoAggr
  /\ UNCHANGED tuner

\* the test of simulate's outer loop: the next realization begins, or the
\* batch is returned
SimulateOuter ==
  /\ pc = "outer"
  /\ IF n < nSamples
     THEN /\ pc' = "inner"
          /\ IF model = "lissajous"
             THEN /\ data' = <<>>
                  /\ i' = 0
                  /\ dims' = dims
             ELSE /\ data' = <<LangevinInitialPoint>>
                  /\ i' = 1
                  /\ dims' = <<LangevinDim0, LangevinDim0, LangevinDim0>>
          /\ UNCHANGED result
     ELSE /\ pc' = "idle"
          /\ result' = simTrajectories
          /\ UNCHANGED <<data, i, dims>>
  /\ UNCHANGED <<op, args, raised, calls, plotTime, steps, n, simTrajectories, variates,
               aggr>>
  /\ UNCHANGED tuner

\* the next value of the counter of an inner loop without end, once the
\* model has stopped counting: above MaxSteps, and different from the last
Beyond(k) == IF k = MaxSteps + 1 THEN MaxSteps + 2 ELSE MaxSteps + 1

\* one test of lissajous.simulate's inner loop, with the body or the exit
\* that follows it
LissajousInner ==
  /\ pc = "inner"
  /\ model = "lissajous"
  /\ IF Le(Int2Num(i), steps)
     THEN /\ IF IsFinite(steps) \/ i < MaxSteps + 1
             THEN /\ \E t \in {SampleTime(i, dt, plotTime)} :
                       data' = Append(data, LissajousSample(t, params))
                  /\ i' = i + 1
             ELSE /\ data' = data
                  /\ i' = Beyond(i)
          /\ calls' = calls \cup {<<"lissajous", "evaluate">>}
          /\ UNCHANGED <<pc, n, simTrajectories>>
     ELSE /\ simTrajectories' = Append(simTrajectories, data)
          /\ n' = n + 1
          /\ pc' = "outer"
          /\ UNCHANGED <<i, data, calls>>
  /\ UNCHANGED <<op, args, result, raised, plotTime, steps, dims, variates, aggr>>
  /\ UNCHANGED tuner

\* one test of langevin.simulate's inner loop, with the body or the exit that
\* follows it; the body draws one normal variate per dimension
LangevinInner ==
  /\ pc = "inner"
  /\ model = "langevin"
  /\ IF Le(Int2Num(i), steps)
     THEN /\ IF IsFinite(steps) \/ i < MaxSteps + 1
             THEN /\ \E normals \in NormalTriples :
                       \E t \in {SampleTime(i, dt, plotTime)} :
                       \E vel_prev \in {<<dims[1].vel, dims[2].vel, dims[3].vel>>} :
                       \E next \in {ArrayOf([dim \in 1..3 |->
                                               LangevinDim(dims[dim], params, dt,
                                                           normals[dim])])} :
                         /\ dims' = next
                         /\ data' = Append(data, LangevinPoint(t, next, vel_prev, dt))
                         /\ variates' = variates \o normals
                  /\ i' = i + 1
             ELSE /\ UNCHANGED <<dims, data, variates>>
                  /\ i' = Beyond(i)
          /\ UNCHANGED <<pc, n, simTrajectories>>
     ELSE /\ simTrajectories' = Append(simTrajectories, data)
          /\ n' = n + 1
          /\ pc' = "outer"
          /\ UNCHANGED <<i, data, dims, variates>>
  /\ UNCHANGED <<op, args, result, raised, calls, plotTime, steps, aggr>>
  /\ UNCHANGED tuner

\* computeStats(trajectoryData) with the batch the last simulate returned
ComputeStats ==
  /\ pc = "idle"
  /\ op = "simulate"
  /\ ~raised
  /\ op' = "computeStats"
  /\ trajectoryData' = result
  /\ missing' = FALSE
  /\ fromSimulate' = TRUE
  /\ stats' = computeStats(FALSE, result)
  /\ UNCHANGED <<pc, args, result, raised, calls, locals>>
  /\ UNCHANGED tuner

\* computeStats with a synthetic batch, or with null
ComputeStatsSynthetic ==
  /\ pc = "idle"
  /\ op = "none"
  /\ \E batch \in SynthBatches \cup ExampleBatches : \E absent \in BOOLEAN :
       /\ absent => batch = <<>>
       /\ trajectoryData' = batch
       /\ missing' = absent
       /\ stats' = computeStats(absent, batch)
  /\ Call("computeStats", "", "", <<>>, NaN, NaN, 0)
  /\ Return(<<>>, {})
  /\ fromSimulate' = FALSE
  /\ NoLocals
  /\ UNCHANGED tuner

\* the caller is done with the result of the call, and may call again
Finish ==
  /\ pc = "idle"
  /\ op # "none"
  /\ Call("none", "", "", <<>>, NaN, NaN, 0)
  /\ Return(<<>>, {})
  /\ NoLocals
  /\ NoAggr
  /\ UNCHANGED tuner

(***************************************************************************)
(* TrajectoryTuner (src/unnamed/part_000)                                  *)
(***************************************************************************)
\* paramConfig of each model: min, max and step of every key
lissajousParamConfig ==
  [A |-> [min |-> Zero, max |-> Int2Num(3), step |-> Q(1, 20)],
   B |-> [min |-> Zero, max |-> Int2Num(3), step |-> Q(1, 20)],
   C |-> [min |-> Zero, max |-> Int2Num(3), step |-> Q(1, 20)],
   a |-> [min |-> Zero, max |-> Int2Num(10), step |-> Q(1, 4)],
   b |-> [min |-> Zero, max |-> Int2Num(10), step |-> Q(1, 4)],
   c |-> [min |-> Zero, max |-> Int2Num(10), step |-> Q(1, 4)],
   duration |-> [min |-> Q(1, 10), max |-> Int2Num(60), step |-> Q(1, 4)],
   ramp_duration |-> [min |-> Zero, max |-> Int2Num(30), step |-> Q(1, 4)]]

langevinParamConfig ==
  [gamma |-> [min |-> Zero, max |-> Int2Num(5), step |-> Q(1, 10)],
   omega |-> [min |-> Q(1, 10), max |-> Int2Num(5), step |-> Q(1, 10)],
   sigma |-> [min |-> Zero, max |-> Two, step |-> Q(1, 20)],
   alpha |-> [min |-> Q(1, 100), max |-> One, step |-> Q(1, 100)],
   duration |-> [min |-> One, max |-> Int2Num(60), step |-> One]]

ParamConfig(m) == IF m = "lissajous" THEN lissajousParamConfig ELSE langevinParamConfig

\* a lookup that finds no key and always takes the fallback
ConfigOfFallback(m, key) == [min |-> NInf, max |-> PInf, step |-> Q(1, 100)]

\* trajectory.paramConfig[key] ?? { step: 0.01, min: -Infinity, max: Infinity }
ConfigOf(m, key) ==
  IF key \in DOMAIN ParamConfig(m) THEN ParamConfig(m)[key]
  ELSE [min |-> NInf, max |-> PInf, step |-> Q(1, 100)]

\* the flag isStochastic of each model
isStochastic(m) == m = "langevin"

\* toFixed never prints more than this many decimals in snapToStep
MaxDecimals == 8

\* 10^k
RECURSIVE Pow10(_)
Pow10(k) == IF k = 0 THEN 1 ELSE 10 * Pow10(k - 1)

\* decimalsFromStep: the digits String(step) has after its point
decimalsFromStep(step) ==
  CHOOSE k \in 0..MaxDecimals :
    /\ Floor(Mul(step, Int2Num(Pow10(k)))) = Mul(step, Int2Num(Pow10(k)))
    /\ \A j \in 0..(k - 1) :
         Floor(Mul(step, Int2Num(Pow10(j)))) # Mul(step, Int2Num(Pow10(j)))

\* parseFloat(x.toFixed(dec)): the nearest number with dec decimals, a tie
\* going away from zero
toFixed(x, dec) ==
  IF ~IsFinite(x) THEN x
  ELSE IF Lt(x, Zero)
       THEN Neg(Div(Round(Mul(Neg(x), Int2Num(Pow10(dec)))), Int2Num(Pow10(dec))))
       ELSE Div(Round(Mul(x, Int2Num(Pow10(dec)))), Int2Num(Pow10(dec)))

\* snapToStep
snapToStep(v, step) ==
  IF ~IsFinite(v) \/ ~IsFinite(step) \/ Le(step, Zero) THEN v
  ELSE toFixed(Mul(Round(Div(v, step)), step),
               The({IF dec < MaxDecimals THEN dec ELSE MaxDecimals :
                      dec \in {decimalsFromStep(step)}}))

\* a lookup that takes the selected id for the id of a model
TrajectoryOfSelected(selected) == selected

\* the memo `trajectory`: trajectoryList.find(t => t.id === trajectoryId) ||
\* trajectoryList[0]
TrajectoryOf(selected) ==
  IF \E k \in 1..Len(trajectoryList) : trajectoryList[k] = selected
  THEN trajectoryList[CHOOSE k \in 1..Len(trajectoryList) :
                        /\ trajectoryList[k] = selected
                        /\ \A j \in 1..(k - 1) : trajectoryList[j] # selected]
  ELSE trajectoryList[1]

\* what model m reads in the object p: a key p does not have reads as
\* undefined, which is NaN in every arithmetic and false in every comparison
ReadBy(m, p) ==
  [key \in DOMAIN DefaultParams(m) |-> IF key \in DOMAIN p THEN p[key] ELSE NaN]

\* the memo `plotTime`: trajectory.getPlotTime(params)
PlotTimeOf(m, p) ==
  IF m = "lissajous" THEN LissajousGetPlotTime(ReadBy(m, p))
                     ELSE LangevinGetPlotTime(ReadBy(m, p))

\* the number of trajectories in the memo `trajectoryData`: none when
\* plotTime <= 0, else the n of trajectory.simulate(params, dt, n)
TrajectoryDataLength ==
  IF Le(uiPlotTime, Zero) THEN Zero
  ELSE IF isStochastic(trajectory) THEN uiNSamples ELSE One

\* one render of TrajectoryTuner with this state: the memos are computed
\* and the effects whose dependency changed are scheduled
Render(selected, p, k, tm, ev) ==
  /\ trajectoryId' = selected
  /\ uiParams' = p
  /\ uiNSamples' = k
  /\ uiT' = tm
  /\ trajectory' = TrajectoryOf(selected)
  /\ uiPlotTime' = PlotTimeOf(trajectory', p)
  /\ pending' = (IF trajectory' # trajectory THEN {"reset"} ELSE {})
                  \cup (IF uiPlotTime' # uiPlotTime THEN {"clamp"} ELSE {})
  /\ event' = ev
  /\ UNCHANGED engine

\* the values of the selector
SelectedIds == {"lissajous", "langevin", "circle"}

\* the sliders that are moved
EditedKeys == {"a", "duration", "sigma"}

\* what parseFloat makes of the text of a parameter slider
ParsedValues == {NaN, PInf, Neg(One), Int2Num(1000), Q(113, 100)}

\* what parseFloat makes of the text of the time slider
ParsedTimes == {NaN, Neg(One), Int2Num(1000), Q(1234, 1000)}

\* what parseInt makes of the text of the sample count
ParsedCounts == {NaN, Zero, Int2Num(5), Int2Num(250)}

\* the selector's onChange: setTrajectoryId(e.target.value)
SelectTrajectory ==
  /\ pending = {}
  /\ \E selected \in SelectedIds :
       Render(selected, uiParams, uiNSamples, uiT,
              [kind |-> "select", finite |-> TRUE,
               changed |-> TrajectoryOf(selected) # trajectory])

\* handleChange(key)
HandleChange ==
  /\ pending = {}
  /\ \E key \in EditedKeys \cap DOMAIN uiParams, raw \in ParsedValues :
       IF ~IsFinite(raw)
       THEN /\ event' = [kind |-> "change", finite |-> FALSE, changed |-> FALSE]
            /\ UNCHANGED <<trajectoryId, uiParams, uiNSamples, uiT, trajectory,
                           uiPlotTime, pending, engine>>
       ELSE \E cfg \in {ConfigOf(trajectory, key)} :
              Render(trajectoryId,
                     [uiParams EXCEPT
                        ![key] = Min(cfg.max, Max(cfg.min, snapToStep(raw, cfg.step)))],
                     uiNSamples, uiT,
                     [kind |-> "change", finite |-> TRUE, changed |-> FALSE])

\* handleTime
HandleTime ==
  /\ pending = {}
  /\ \E raw \in ParsedTimes :
       IF ~IsFinite(raw)
       THEN /\ event' = [kind |-> "time", finite |-> FALSE, changed |-> FALSE]
            /\ UNCHANGED <<trajectoryId, uiParams, uiNSamples, uiT, trajectory,
                           uiPlotTime, pending, engine>>
       ELSE Render(trajectoryId, uiParams, uiNSamples,
                   Min(Max(Zero, snapToStep(raw, Q(1, 100))), uiPlotTime),
                   [kind |-> "time", finite |-> TRUE, changed |-> FALSE])

\* a handleNSamples that takes every count from 1 up
HandleNSamplesUnbounded ==
  /\ pending = {}
  /\ \E raw \in ParsedCounts :
       IF ~IsFinite(raw) \/ Lt(raw, One)
       THEN /\ event' = [kind |-> "nSamples", finite |-> FALSE, changed |-> FALSE]
            /\ UNCHANGED <<trajectoryId, uiParams, uiNSamples, uiT, trajectory,
                           uiPlotTime, pending, engine>>
       ELSE Render(trajectoryId, uiParams, Max(One, raw), uiT,
                   [kind |-> "nSamples", finite |-> TRUE, changed |-> FALSE])

\* handleNSamples
HandleNSamples ==
  /\ pending = {}
  /\ \E raw \in ParsedCounts :
       IF ~IsFinite(raw) \/ Lt(raw, One)
       THEN /\ event' = [kind |-> "nSamples", finite |-> FALSE, changed |-> FALSE]
            /\ UNCHANGED <<trajectoryId, uiParams, uiNSamples, uiT, trajectory,
                           uiPlotTime, pending, engine>>
       ELSE Render(trajectoryId, uiParams, Min(Int2Num(100), Max(One, raw)), uiT,
                   [kind |-> "nSamples", finite |-> TRUE, changed |-> FALSE])

\* the effects of the last render run in the order the component declares
\* them: setParams({ ...trajectory.defaultParams }); setT(0) when `trajectory`
\* changed, then setT(prev => Math.min(prev, plotTime)) when `plotTime`
\* changed; the component renders again with the outcome
RunEffects ==
  /\ pending # {}
  /\ \E p1 \in {IF "reset" \in pending THEN DefaultParams(trajectory) ELSE uiParams},
        t1 \in {IF "reset" \in pending THEN Zero ELSE uiT} :
       Render(trajectoryId, p1, uiNSamples,
              IF "clamp" \in pending THEN Min(t1, uiPlotTime) ELSE t1,
              event)

TunerNext ==
  \/ SelectTrajectory
  \/ HandleChange
  \/ HandleTime
  \/ HandleNSamples
  \/ RunEffects

\* the component alone: the events of the user and, between two events,
\* the effects of the renders
TunerSpec == Init /\ [][TunerNext]_vars

Next ==
  \/ Finish
  \/ GetTrajectory
  \/ GetPlotTime
  \/ GetCycleDuration
  \/ HasSingularity
  \/ Evaluate
  \/ GetCommand
  \/ Simulate
  \/ SimulateOuter
  \/ LissajousInner
  \/ LangevinInner
  \/ ComputeStats
  \/ ComputeStatsSynthetic

Spec == Init /\ [][Next]_vars

\* simulate is synchronous code on a single thread: once called, it takes the
\* next step of its loops until it returns
FairSpec ==
  /\ Spec
  /\ WF_vars(SimulateOuter)
  /\ WF_vars(LissajousInner)
  /\ WF_vars(LangevinInner)

(***************************************************************************)
(* Properties                                                              *)
(***************************************************************************)
\* simulate has returned its batch, which is still the result at hand
Simulated == op = "simulate" /\ pc = "idle" /\ ~raised

\* C1: getTrajectory(id) returns the registered model for 'lissajous' and
\* 'langevin', and null, without raising, for every other string
C1_UnknownIdIsNull ==
  op = "getTrajectory" =>
    /\ ~raised
    /\ result = IF id \in {"lissajous", "langevin"}
                THEN [kind |-> "model", id |-> id]
                ELSE [kind |-> "null", id |-> ""]

\* a call of getTrajectory with the name of a property of Object.prototype
\* has returned that property
C1_InheritedReturned ==
  /\ op = "getTrajectory"
  /\ id = "constructor"
  /\ result = [kind |-> "inherited", id |-> "constructor"]

\* C2: computeStats, handed the batch simulate returned for nSamples >= 1,
\* does not raise and returns as many records as each trajectory of the batch
\* has samples, record i carrying the time of sample i
C2_StatsFollowBatch ==
  (op = "computeStats" /\ fromSimulate /\ nSamples >= 1) =>
    /\ ~raised
    /\ \A k \in 1..Len(trajectoryData) :
         /\ Len(stats) = Len(trajectoryData[k])
         /\ \A j \in 1..Len(stats) : stats[j].t = trajectoryData[k][j].t

\* computeStats has returned the statistics of a batch of two langevin
\* realizations of three samples each
C2_Witness ==
  /\ op = "computeStats"
  /\ fromSimulate
  /\ model = "langevin"
  /\ nSamples = 2
  /\ Len(trajectoryData) = 2
  /\ Len(trajectoryData[1]) = 3
  /\ Len(stats) = 3
  /\ stats[3].t = Two

\* plotTime / dt is an integer
Divides(d, horizon) == Floor(Div(horizon, d)) = Div(horizon, d)

\* C3 as stated: for a positive plot horizon and dt > 0, each trajectory
\* simulate returns starts with a sample at t = 0 and ends with a sample at
\* t = getPlotTime(params) exactly
C3_EndsAtHorizon ==
  (Simulated /\ Gt(plotTime, Zero) /\ Gt(dt, Zero)) =>
    \A k \in 1..Len(result) :
      /\ Len(result[k]) >= 1
      /\ result[k][1].t = Zero
      /\ result[k][Len(result[k])].t = plotTime

\* C3, amended: for a positive plot horizon and dt > 0, each trajectory
\* simulate returns holds at least two samples, starts at t = 0 and ends at
\* the last multiple of dt that does not exceed the horizon: within dt of the
\* horizon, and at the horizon exactly when dt divides it or is not below it.
\* Two exceptions: with an infinite dt the first sample of a lissajous
\* trajectory has t = NaN; with an infinite horizon and an infinite dt a
\* lissajous trajectory is empty and a langevin trajectory holds only the
\* sample at t = 0
C3_EndsWithinStep ==
  (Simulated /\ Gt(plotTime, Zero) /\ Gt(dt, Zero)) =>
    \A k \in 1..Len(result) :
      IF plotTime = PInf /\ dt = PInf
      THEN result[k] = IF model = "lissajous" THEN <<>> ELSE <<LangevinInitialPoint>>
      ELSE /\ Len(result[k]) >= 2
           /\ result[k][1].t = IF model = "lissajous" /\ dt = PInf THEN NaN ELSE Zero
           /\ Le(result[k][Len(result[k])].t, plotTime)
           /\ Lt(Sub(plotTime, result[k][Len(result[k])].t), dt)
           /\ (result[k][Len(result[k])].t = plotTime) <=>
                (Ge(dt, plotTime) \/ Divides(dt, plotTime))
           /\ \/ result[k][Len(result[k])].t = plotTime
              \/ result[k][Len(result[k])].t = Mul(Int2Num(Len(result[k]) - 1), dt)

\* lissajous.simulate has returned, for a horizon of 13 and dt = 5, a
\* trajectory that ends at t = 10
C3_Witness ==
  /\ Simulated
  /\ model = "lissajous"
  /\ plotTime = Int2Num(13)
  /\ dt = Int2Num(5)
  /\ Len(result) = 2
  /\ Len(result[1]) = 3
  /\ result[1][3].t = Int2Num(10)

\* the twelve fields of a statistic record next to t
StatFields ==
  {"speedMin", "speedMax", "speedMean", "speedStd", "speedLower", "speedUpper",
   "accelMin", "accelMax", "accelMean", "accelStd", "accelLower", "accelUpper"}

\* C4: for a batch of any size N >= 1, every record computeStats returns
\* carries min, max, mean, std, lower = mean - std and upper = mean + std, for
\* speed and for acceleration
C4_SixValuesEach ==
  (op = "computeStats" /\ ~missing /\ Len(trajectoryData) >= 1) =>
    \A j \in 1..Len(stats) :
      /\ StatFields \subseteq DOMAIN stats[j]
      /\ stats[j].speedLower = Sub(stats[j].speedMean, stats[j].speedStd)
      /\ stats[j].speedUpper = Add(stats[j].speedMean, stats[j].speedStd)
      /\ stats[j].accelLower = Sub(stats[j].accelMean, stats[j].accelStd)
      /\ stats[j].accelUpper = Add(stats[j].accelMean, stats[j].accelStd)

\* computeStats has returned, for a batch of one langevin realization, a
\* record without the band speedLower .. speedUpper
C4_BandMissing ==
  /\ op = "computeStats"
  /\ fromSimulate
  /\ model = "langevin"
  /\ Len(trajectoryData) = 1
  /\ Len(stats) >= 1
  /\ "speedLower" \notin DOMAIN stats[1]
  /\ "accelUpper" \notin DOMAIN stats[1]

\* C5: langevin.evaluate raises for every time and every parameter set and
\* returns no sample; getPlotTime, simulate, hasSingularity and getCommand of
\* the langevin model never call it
C5_EvaluateRaises ==
  /\ (op = "evaluate" /\ model = "langevin") => (raised /\ result = <<>>)
  /\ (model = "langevin" /\ op \in {"getPlotTime", "simulate", "hasSingularity",
                                    "getCommand", "computeStats"}) =>
       (<<"langevin", "evaluate">> \notin calls /\ ~raised)

\* langevin.evaluate was called at time 1 with a positive duration, and threw
C5_Witness ==
  /\ op = "evaluate"
  /\ model = "langevin"
  /\ time = One
  /\ params.duration = Two
  /\ raised
  /\ calls = {<<"langevin", "evaluate">>}

\* C6: for either model, when duration <= 0 the plot horizon is 0 and
\* simulate returns an empty batch without raising; computeStats of an empty
\* or missing batch returns an empty sequence without raising
C6_DegenerateIsEmpty ==
  /\ (op = "simulate" /\ Le(params.duration, Zero)) =>
       (pc = "idle" /\ ~raised /\ plotTime = Zero /\ result = <<>>)
  /\ (op = "computeStats" /\ (missing \/ trajectoryData = <<>>)) =>
       (~raised /\ stats = <<>>)

\* lissajous.simulate returned an empty batch for a negative duration and two
\* realizations, and computeStats returned no record for it
C6_Witness ==
  /\ op = "computeStats"
  /\ fromSimulate
  /\ model = "lissajous"
  /\ params.duration = Neg(One)
  /\ nSamples = 2
  /\ dt = Int2Num(5)
  /\ plotTime = Zero
  /\ trajectoryData = <<>>
  /\ stats = <<>>

\* C7 as stated: lissajous.getPlotTime returns 0 when duration <= 0 and
\* otherwise ramp_duration + cycleDuration, for every ramp_duration
C7_RampAddedAsIs ==
  (op = "getPlotTime" /\ model = "lissajous") =>
    result = IF Le(params.duration, Zero) THEN Zero
             ELSE Add(params.ramp_duration, calculateCycleDuration(params))

\* C7, amended: lissajous.getPlotTime returns 0 unless duration > 0 (so also
\* for a duration that is NaN), and otherwise cycleDuration plus the ramp
\* duration, a negative ramp duration counting as 0
C7_NegativeRampCountsAsZero ==
  (op = "getPlotTime" /\ model = "lissajous") =>
    result = IF Gt(params.duration, Zero)
             THEN Add(IF Lt(params.ramp_duration, Zero) THEN Zero
                                                        ELSE params.ramp_duration,
                      calculateCycleDuration(params))
             ELSE Zero

\* lissajous.getPlotTime returned the cycle duration alone, 5, for a ramp
\* duration of -1
C7_Witness ==
  /\ op = "getPlotTime"
  /\ model = "lissajous"
  /\ params.ramp_duration = Neg(One)
  /\ params.duration = Int2Num(10)
  /\ params.A = Q(1, 2)
  /\ params.a = Two
  /\ params.B = Zero
  /\ params.C = Zero
  /\ result = Int2Num(5)

\* the largest quotient of a frequency by the greatest common divisor looked for
MaxQuot == 4

\* g divides every frequency of S a whole number of times
DividesAll(g, S) == \A f \in S : Floor(Div(f, g)) = Div(f, g)

\* the greatest common divisor of the non-empty set S of positive frequencies:
\* the greatest number that divides each a whole number of times
GreatestDivisor(S) ==
  CHOOSE g \in {Div(f, Int2Num(k)) : f \in S, k \in 1..MaxQuot} :
    /\ DividesAll(g, S)
    /\ \A h \in {Div(f, Int2Num(k)) : f \in S, k \in 1..MaxQuot} :
         DividesAll(h, S) => Le(h, g)

\* the amplitude and the frequency of each axis
AxesOf(p) == {<<p.A, p.a>>, <<p.B, p.b>>, <<p.C, p.c>>}

\* the magnitudes of the frequencies of the axes of non-zero amplitude and
\* non-zero frequency
NonZeroFreqs(p) == {Abs(ax[2]) : ax \in {bx \in AxesOf(p) : bx[1] # Zero /\ bx[2] # Zero}}

\* the frequencies of the axes of positive amplitude and positive frequency
PositiveFreqs(p) ==
  {ax[2] : ax \in {bx \in AxesOf(p) : Gt(bx[1], Zero) /\ Gt(bx[2], Zero)}}

\* C8 as stated: the cycle duration is duration / g, g the greatest common
\* divisor of the frequencies of the axes of non-zero amplitude and non-zero
\* frequency; it is duration when there is no such axis or g is not above
\* 1e-9; for the frequencies {2, 1, 1}, positive amplitudes and duration 10
\* it is 10
C8_NonZeroAxes ==
  (op = "getCycleDuration") =>
    /\ result =
         IF NonZeroFreqs(params) = {} THEN params.duration
         ELSE IF \E f \in NonZeroFreqs(params) : Le(f, Tol) THEN params.duration
         ELSE IF Le(GreatestDivisor(NonZeroFreqs(params)), Tol) THEN params.duration
         ELSE Div(params.duration, GreatestDivisor(NonZeroFreqs(params)))
    /\ ( /\ <<params.a, params.b, params.c>> = <<Two, One, One>>
         /\ Gt(params.A, Zero) /\ Gt(params.B, Zero) /\ Gt(params.C, Zero)
         /\ params.duration = Int2Num(10) ) => result = Int2Num(10)

\* C8, amended: an axis is active exactly when its amplitude and its frequency
\* are both above 0.  The cycle duration is duration * (1 / g), g being the
\* greatest common divisor of the active frequencies above 1e-9; when no
\* active frequency is above 1e-9 it is duration * 1e9 if one equals 1e-9
\* and duration otherwise (also when no axis is active).  For the frequencies
\* {2, 1, 1}, positive amplitudes and duration 10 it is 10
C8_PositiveAxes ==
  (op = "getCycleDuration") =>
    /\ result =
         IF {f \in PositiveFreqs(params) : Gt(f, Tol)} # {}
         THEN Mul(params.duration,
                  Div(One, GreatestDivisor({f \in PositiveFreqs(params) : Gt(f, Tol)})))
         ELSE IF Tol \in PositiveFreqs(params)
              THEN Mul(params.duration, Int2Num(1000000000))
              ELSE params.duration
    /\ ( /\ <<params.a, params.b, params.c>> = <<Two, One, One>>
         /\ Gt(params.A, Zero) /\ Gt(params.B, Zero) /\ Gt(params.C, Zero)
         /\ params.duration = Int2Num(10) ) => result = Int2Num(10)

\* getCycleDuration returned 10 for duration 10 and the axes (-1, 3/2),
\* (1, 1), (0, 1): the axis of negative amplitude did not count
C8_Witness ==
  /\ op = "getCycleDuration"
  /\ params.A = Neg(One)
  /\ params.a = Q(3, 2)
  /\ params.B = One
  /\ params.b = One
  /\ params.C = Zero
  /\ params.duration = Int2Num(10)
  /\ result = Int2Num(10)

\* the velocity along one axis at t = 0 without a ramp
InitialVelocity(amp, f, p) == Div(Mul(Mul(amp, f), Mul(Two, PI)), p.duration)

\* the magnitude of the velocity at t = 0 without a ramp
InitialSpeed(p) ==
  Hypot(InitialVelocity(p.A, p.a, p), InitialVelocity(p.B, p.b, p),
        InitialVelocity(p.C, p.c, p))

\* C9 as stated: lissajous.hasSingularity returns true if and only if
\* ramp_duration equals 0 and the velocity magnitude at t = 0 exceeds 1e-9;
\* it returns false for every ramp_duration different from 0
C9_OnlyAtZeroRamp ==
  (op = "hasSingularity" /\ model = "lissajous") =>
    (result = TRUE <=>
       (params.ramp_duration = Zero /\ Gt(InitialSpeed(params), Tol)))

\* C9, amended: lissajous.hasSingularity returns true if and only if
\* ramp_duration is not above 0 (it is 0, negative or NaN) and the velocity
\* magnitude at t = 0 exceeds 1e-9; it returns false whenever
\* ramp_duration > 0
C9_UnlessPositiveRamp ==
  (op = "hasSingularity" /\ model = "lissajous") =>
    /\ result \in BOOLEAN
    /\ result <=> ((~Gt(params.ramp_duration, Zero)) /\ Gt(InitialSpeed(params), Tol))
    /\ Gt(params.ramp_duration, Zero) => result = FALSE

\* lissajous.hasSingularity returned true for a ramp duration of -1
C9_Witness ==
  /\ op = "hasSingularity"
  /\ model = "lissajous"
  /\ params.ramp_duration = Neg(One)
  /\ params.A = Q(1, 2)
  /\ params.a = Two
  /\ params.duration = Int2Num(10)
  /\ result = TRUE

\* C10: for a batch of exactly one trajectory of length L computeStats
\* returns L records, and at every index speedStd = accelStd = 0,
\* speedMin = speedMax = speedMean = the sample's speed and
\* accelMin = accelMax = accelMean = the sample's accel
C10_SingleTrajectoryCopied ==
  (op = "computeStats" /\ ~missing /\ Len(trajectoryData) = 1) =>
    /\ Len(stats) = Len(trajectoryData[1])
    /\ \A j \in 1..Len(stats) :
         /\ stats[j].speedStd = Zero
         /\ stats[j].accelStd = Zero
         /\ stats[j].speedMin = trajectoryData[1][j].speed
         /\ stats[j].speedMax = trajectoryData[1][j].speed
         /\ stats[j].speedMean = trajectoryData[1][j].speed
         /\ stats[j].accelMin = trajectoryData[1][j].accel
         /\ stats[j].accelMax = trajectoryData[1][j].accel
         /\ stats[j].accelMean = trajectoryData[1][j].accel

\* computeStats returned two records for a batch of one trajectory of two
\* samples, the second of speed 4 and acceleration 0
C10_Witness ==
  /\ op = "computeStats"
  /\ ~fromSimulate
  /\ Len(trajectoryData) = 1
  /\ Len(trajectoryData[1]) = 2
  /\ trajectoryData[1][2].speed = Int2Num(4)
  /\ Len(stats) = 2
  /\ stats[2].speedMean = Int2Num(4)
  /\ stats[2].accelMax = Zero

\* the sum and the sum of the squares of the values vs
RECURSIVE SumOf(_)
SumOf(vs) == IF vs = <<>> THEN Zero ELSE Add(Head(vs), SumOf(Tail(vs)))

RECURSIVE SumOfSquares(_)
SumOfSquares(vs) ==
  IF vs = <<>> THEN Zero ELSE Add(Mul(Head(vs), Head(vs)), SumOfSquares(Tail(vs)))

ArithmeticMean(vs) == Div(SumOf(vs), Int2Num(Len(vs)))

\* the population variance: the mean of the squares less the square of the mean
PopulationVariance(vs) ==
  Sub(Div(SumOfSquares(vs), Int2Num(Len(vs))),
      Mul(ArithmeticMean(vs), ArithmeticMean(vs)))

\* the values of a field at time index j, one per trajectory of the batch
Column(batch, j, field) == [k \in 1..Len(batch) |-> batch[k][j][field]]

\* least and greatest are the least and the greatest of the values vs
IsLeast(least, vs) ==
  /\ \E k \in 1..Len(vs) : vs[k] = least
  /\ \A k \in 1..Len(vs) : Le(least, vs[k])

IsGreatest(greatest, vs) ==
  /\ \E k \in 1..Len(vs) : vs[k] = greatest
  /\ \A k \in 1..Len(vs) : Ge(greatest, vs[k])

\* every trajectory of the batch has the length of the first
Aligned(batch) == \A k \in 1..Len(batch) : Len(batch[k]) = Len(batch[1])

AllFinite(vs) == \A k \in 1..Len(vs) : IsFinite(vs[k])

\* C11: for an index-aligned batch of N > 1 trajectories, at every time index
\* computeStats reports the arithmetic mean, the minimum, the maximum and the
\* population standard deviation (the root of the variance over N) of the N
\* speeds, and likewise of the N accelerations; speeds {1, 2} at an index give
\* mean 3/2, std 1/2, min 1 and max 2
C11_PopulationStatistics ==
  (op = "computeStats" /\ ~missing /\ Len(trajectoryData) > 1 /\ Aligned(trajectoryData)) =>
    /\ Len(stats) = Len(trajectoryData[1])
    /\ \A j \in 1..Len(stats) :
         /\ AllFinite(Column(trajectoryData, j, "speed")) =>
              /\ stats[j].speedMean = ArithmeticMean(Column(trajectoryData, j, "speed"))
              /\ IsLeast(stats[j].speedMin, Column(trajectoryData, j, "speed"))
              /\ IsGreatest(stats[j].speedMax, Column(trajectoryData, j, "speed"))
              /\ stats[j].speedStd =
                   Sqrt(PopulationVariance(Column(trajectoryData, j, "speed")))
         /\ AllFinite(Column(trajectoryData, j, "accel")) =>
              /\ stats[j].accelMean = ArithmeticMean(Column(trajectoryData, j, "accel"))
              /\ IsLeast(stats[j].accelMin, Column(trajectoryData, j, "accel"))
              /\ IsGreatest(stats[j].accelMax, Column(trajectoryData, j, "accel"))
              /\ stats[j].accelStd =
                   Sqrt(PopulationVariance(Column(trajectoryData, j, "accel")))
         /\ Column(trajectoryData, j, "speed") = <<One, Two>> =>
              /\ stats[j].speedMean = Q(3, 2)
              /\ stats[j].speedStd = Q(1, 2)
              /\ stats[j].speedMin = One
              /\ stats[j].speedMax = Two

\* computeStats returned, for two trajectories of one sample each with the
\* speeds 1 and 2, a record of mean 3/2, deviation 1/2, minimum 1 and maximum 2
C11_Witness ==
  /\ op = "computeStats"
  /\ ~fromSimulate
  /\ Len(trajectoryData) = 2
  /\ Len(trajectoryData[1]) = 1
  /\ Len(trajectoryData[2]) = 1
  /\ trajectoryData[1][1].speed = One
  /\ trajectoryData[2][1].speed = Two
  /\ Len(stats) = 1
  /\ stats[1].speedMean = Q(3, 2)
  /\ stats[1].speedStd = Q(1, 2)
  /\ stats[1].speedMin = One
  /\ stats[1].speedMax = Two

IsEvaluationAt(sample, t, p) ==
  /\ DOMAIN sample = DOMAIN LissajousEvaluate(t, p) \cup {"t"}
  /\ sample.t = t
  /\ \A f \in DOMAIN LissajousEvaluate(t, p) : sample[f] = LissajousEvaluate(t, p)[f]

AtRest == [pos_raw |-> Zero, vel_raw |-> Zero, pos |-> Zero, vel |-> Zero]

SampleAtRest ==
  [t |-> Zero, x |-> Zero, y |-> Zero, z |-> Zero, vx |-> Zero, vy |-> Zero, vz |-> Zero,
   speed |-> Zero, ax |-> Zero, ay |-> Zero, az |-> Zero, accel |-> Zero]

\* the trajectory an integration makes of the variates given, three per step
\* and one per axis, when it goes on from the state st and the samples sofar
RECURSIVE Replay(_, _, _, _, _, _)
Replay(st, sofar, draws, p, d, horizon) ==
  IF Len(draws) < 3 THEN sofar
  ELSE The({Replay(next,
                   Append(sofar,
                          LangevinPoint(Min(Mul(Int2Num(Len(sofar)), d), horizon), next,
                                        <<st[1].vel, st[2].vel, st[3].vel>>, d)),
                   SubSeq(draws, 4, Len(draws)), p, d, horizon) :
              next \in {<<LangevinDim(st[1], p, d, draws[1]),
                          LangevinDim(st[2], p, d, draws[2]),
                          LangevinDim(st[3], p, d, draws[3])>>}})

\* the variates realization k consumes when every realization takes `count`
\* of them: the k-th block of the calls of normalRandom()
VariatesOf(k, count) == SubSeq(variates, (k - 1) * count + 1, k * count)

\* C14: each realization of langevin.simulate starts with the sample at t = 0
\* that is zero in every field, and is the integration, from a raw and a
\* smoothed state that are zero on all three axes, of its own block of
\* normalRandom() values, one per axis per step; the blocks of the
\* realizations follow one another, so no value is shared or used twice and
\* nothing of a realization reaches the next
C14_FreshRealizations ==
  (Simulated /\ model = "langevin") =>
    \A k \in 1..Len(result) :
      /\ Len(result[k]) >= 1
      /\ result[k][1] = SampleAtRest
      /\ Len(variates) = Len(result) * 3 * (Len(result[k]) - 1)
      /\ result[k] = Replay(<<AtRest, AtRest, AtRest>>, <<SampleAtRest>>,
                            VariatesOf(k, 3 * (Len(result[k]) - 1)), params, dt, plotTime)

\* langevin.simulate has returned two realizations of two steps each that
\* differ, having drawn twelve variates
C14_Witness ==
  /\ Simulated
  /\ model = "langevin"
  /\ params.sigma = One
  /\ Len(result) = 2
  /\ Len(result[1]) = 3
  /\ Len(variates) = 12
  /\ result[1][3].speed # Zero
  /\ result[2][3].speed = Zero
  /\ result[2][1] = SampleAtRest

\* the number of steps simulate takes when it returns: none when the step
\* count is NaN
WholeSteps(horizon, d) ==
  IF IsFinite(Max(One, Floor(Div(horizon, d))))
  THEN Max(One, Floor(Div(horizon, d)))[1]
  ELSE 0

\* the realization that parameters and dt alone determine: the integration
\* from rest of variates that are all 0
Noiseless(p, d) ==
  Replay(<<AtRest, AtRest, AtRest>>, <<SampleAtRest>>,
         [j \in 1..(3 * WholeSteps(LangevinGetPlotTime(p), d)) |-> Zero],
         p, d, LangevinGetPlotTime(p))

\* C15: with sigma = 0 the batch langevin.simulate returns is determined by
\* the parameters, dt and nSamples alone, whatever values normalRandom()
\* returned: it holds nSamples realizations for a positive horizon (none
\* otherwise), each equal to the integration without noise, so that two runs
\* return identical batches and the realizations of a batch are identical
C15_NoiseFreeIsDeterministic ==
  (Simulated /\ model = "langevin" /\ params.sigma = Zero) =>
    /\ Len(result) = IF Gt(LangevinGetPlotTime(params), Zero) THEN nSamples ELSE 0
    /\ \A k \in 1..Len(result) :
         /\ result[k] = result[1]
         /\ result[k] = Noiseless(params, dt)

\* langevin.simulate has returned, with sigma = 0, two identical realizations
\* of two steps each although normalRandom() returned values other than 0
C15_Witness ==
  /\ Simulated
  /\ model = "langevin"
  /\ params.sigma = Zero
  /\ dt = One
  /\ Len(result) = 2
  /\ Len(result[1]) = 3
  /\ result[1] = result[2]
  /\ Len(variates) = 12
  /\ variates[1] = One
  /\ variates[2] = Neg(One)
  /\ variates[7] = Zero

\* the durations lissajous.getPlotTime is called with
Durations == {Neg(One), Zero, One, Two, Int2Num(10), NaN, PInf}

\* the durations compared for the amplitudes, frequencies and ramp duration
\* of p: an active frequency of 1e-9 makes the cycle last 1e9 durations, and
\* is called with durations of 1 and 2 but not of 10
DurationsWith(p) == IF p.a = Tol THEN Durations \ {Int2Num(10)} ELSE Durations

\* C16: for fixed amplitudes, frequencies and ramp_duration,
\* lissajous.getPlotTime is non-decreasing in duration: for two durations
\* d1 <= d2, non-positive ones included, the plot time for d1 is not greater
\* than the plot time for d2, and it is less than or equal to it unless
\* ramp_duration is NaN
C16_MonotoneInDuration ==
  (op = "getPlotTime" /\ model = "lissajous") =>
    \A d2 \in DurationsWith(params) :
      Le(params.duration, d2) =>
        /\ ~Gt(result, LissajousGetPlotTime([params EXCEPT !.duration = d2]))
        /\ ~IsNaN(params.ramp_duration) =>
             Le(result, LissajousGetPlotTime([params EXCEPT !.duration = d2]))

\* lissajous.getPlotTime returned 0 for the duration -1, and returns 13 for
\* the duration 10 with the same amplitudes, frequencies and ramp duration
C16_Witness ==
  /\ op = "getPlotTime"
  /\ model = "lissajous"
  /\ params.duration = Neg(One)
  /\ params.ramp_duration = Int2Num(3)
  /\ result = Zero
  /\ Int2Num(10) \in DurationsWith(params)
  /\ LissajousGetPlotTime([params EXCEPT !.duration = Int2Num(10)]) = Int2Num(13)

\* a parameter of p is NaN, Infinity or -Infinity
HasNonFinite(p) == \E f \in DOMAIN p : ~IsFinite(p[f])

\* a sample of the batch has a field that is NaN, Infinity or -Infinity
SurfacesNonFinite(batch) ==
  \E k \in 1..Len(batch) : \E j \in 1..Len(batch[k]) :
    \E f \in DOMAIN batch[k][j] : ~IsFinite(batch[k][j][f])

\* C17: a call of simulate with a parameter that is NaN or +/-Infinity
\* (duration included) and nSamples >= 1 raises no exception, and the batch
\* it returns holds a sample with a NaN or infinite field
C17_NonFiniteSurfaced ==
  (op = "simulate" /\ pc = "idle" /\ nSamples >= 1 /\ HasNonFinite(params)) =>
    /\ ~raised
    /\ SurfacesNonFinite(result)

\* langevin.simulate has returned an empty batch for a duration of NaN and
\* two realizations: no sample surfaces the NaN
C17_NothingSurfaced ==
  /\ Simulated
  /\ model = "langevin"
  /\ IsNaN(params.duration)
  /\ nSamples = 2
  /\ Gt(dt, Zero)
  /\ plotTime = Zero
  /\ result = <<>>

\* C18: for either model, every parameter set and every dt, a call of
\* simulate runs to completion: once called, it returns
C18_RunsToCompletion == (op = "simulate") ~> (op = "simulate" /\ pc = "idle")

\* lissajous.simulate, called with dt = 0 and a plot horizon of 13, is in its
\* inner loop with steps = Infinity past the iterations the model counts, and
\* the loop test i <= steps still holds
C18_LoopWithoutEnd ==
  /\ op = "simulate"
  /\ model = "lissajous"
  /\ pc = "inner"
  /\ dt = Zero
  /\ plotTime = Int2Num(13)
  /\ steps = PInf
  /\ i > MaxSteps + 1
  /\ Le(Int2Num(i), steps)
  /\ Len(data) = MaxSteps + 1

\* the keys of defaultParams of each model, in the order the object literal
\* lists them
lissajousParamOrder == <<"A", "B", "C", "a", "b", "c", "duration", "ramp_duration">>

langevinParamOrder == <<"gamma", "omega", "sigma", "alpha", "duration">>

ParamOrder(m) == IF m = "lissajous" THEN lissajousParamOrder ELSE langevinParamOrder

\* the tokens on one line, a single space between two of them
RECURSIVE JoinTokens(_)
JoinTokens(tokens) ==
  IF Len(tokens) = 1 THEN tokens[1]
  ELSE tokens[1] \o " " \o JoinTokens(Tail(tokens))

\* C19: getCommand(params) returns the tokens 'mc_raptor', 'intref', the
\* model's id and then one token per key of the model's defaultParams, in
\* defaultParams order (A B C a b c duration ramp_duration for lissajous,
\* gamma omega sigma alpha duration for langevin), each the value of that
\* parameter, on one line with single spaces between them
C19_CommandTokens ==
  (op = "getCommand") =>
    /\ ~raised
    /\ Len(ParamOrder(model)) = Cardinality(DOMAIN DefaultParams(model))
    /\ {ParamOrder(model)[k] : k \in 1..Len(ParamOrder(model))} = DOMAIN DefaultParams(model)
    /\ result = JoinTokens(<<"mc_raptor", "intref", model>> \o
                           [k \in 1..Len(ParamOrder(model)) |->
                              Format(params[ParamOrder(model)[k]])])

\* lissajous.getCommand returned the line of eleven tokens for A = 1.25,
\* c = 1/3, a duration of -2.5 and a ramp duration of 0.125
C19_Witness ==
  /\ op = "getCommand"
  /\ model = "lissajous"
  /\ params.A = Q(5, 4)
  /\ params.c = Q(1, 3)
  /\ params.duration = Q(-5, 2)
  /\ params.ramp_duration = Q(1, 8)
  /\ result = "mc_raptor intref lissajous 1.25 1 0 2 1 0.3333333333333333 -2.5 0.125"

\* an integration step of langevin.simulate: the body of its inner loop has
\* stored one more sample
IntegrationStep ==
  /\ op = "simulate"
  /\ model = "langevin"
  /\ pc = "inner"
  /\ pc' = "inner"
  /\ Len(data') = Len(data) + 1

\* the Brownian increment of axis k in the step: sqrt(dt) times the variate
\* drawn for that axis
BrownianIncrement(k) == Mul(Sqrt(dt), variates'[Len(variates) + k])

\* C20: in every integration step of langevin.simulate, on each axis: the raw
\* velocity becomes v + (-gamma * v - omega^2 * x) * dt + sigma * dW from the
\* previous raw velocity v and raw position x, the raw position advances with
\* the updated raw velocity, the smoothed velocity becomes alpha times the
\* updated raw velocity plus (1 - alpha) times the previous smoothed velocity,
\* and the smoothed position advances with the updated smoothed velocity; the
\* update of an axis reads the state and the variate of that axis alone
C20_AxisUpdate ==
  [][IntegrationStep =>
       /\ Len(variates') = Len(variates) + 3
       /\ \A k \in 1..3 :
            /\ dims'[k].vel_raw =
                 Add(Add(dims[k].vel_raw,
                         Mul(Sub(Mul(Neg(params.gamma), dims[k].vel_raw),
                                 Mul(Mul(params.omega, params.omega), dims[k].pos_raw)),
                             dt)),
                     Mul(params.sigma, BrownianIncrement(k)))
            /\ dims'[k].pos_raw = Add(dims[k].pos_raw, Mul(dims'[k].vel_raw, dt))
            /\ dims'[k].vel =
                 Add(Mul(params.alpha, dims'[k].vel_raw),
                     Mul(Sub(One, params.alpha), dims[k].vel))
            /\ dims'[k].pos = Add(dims[k].pos, Mul(dims'[k].vel, dt))]_vars

\* langevin.simulate has taken two steps of dt = 1 with gamma = 1/2,
\* omega = 1, sigma = 1, alpha = 1/2 and the variates 1, -1, 2 in each: the
\* first axis is at raw position 3/2 and raw velocity 1/2, smoothed position 1
\* and smoothed velocity 1/2
C20_Witness ==
  /\ op = "simulate"
  /\ model = "langevin"
  /\ pc = "inner"
  /\ i = 3
  /\ dt = One
  /\ params.sigma = One
  /\ params.alpha = Q(1, 2)
  /\ variates = <<One, Neg(One), Two, One, Neg(One), Two>>
  /\ dims[1] = [pos_raw |-> Q(3, 2), vel_raw |-> Q(1, 2), pos |-> One, vel |-> Q(1, 2)]
  /\ dims[2] # dims[1]

\* the fields of a sample that hold the position, the velocity and the
\* acceleration of each axis
AxisFields == {<<"x", "vx", "ax">>, <<"y", "vy", "ay">>, <<"z", "vz", "az">>}

\* C21: along every trajectory langevin.simulate returns, for consecutive
\* samples and each axis, the acceleration of the later sample times dt is
\* the difference of their velocities and the difference of their positions
\* is the velocity of the later sample times dt; the position and the
\* velocity a sample reports are the smoothed ones of the state after its step
C21_SmoothedDifferences ==
  /\ (Simulated /\ model = "langevin") =>
       \A k \in 1..Len(result) : \A j \in 2..Len(result[k]) : \A fs \in AxisFields :
         /\ Mul(result[k][j][fs[3]], dt) = Sub(result[k][j][fs[2]], result[k][j - 1][fs[2]])
         /\ Sub(result[k][j][fs[1]], result[k][j - 1][fs[1]]) = Mul(result[k][j][fs[2]], dt)
  /\ (op = "simulate" /\ model = "langevin" /\ pc = "inner" /\ Len(data) >= 2) =>
       /\ <<data[Len(data)].x, data[Len(data)].y, data[Len(data)].z>> =
            <<dims[1].pos, dims[2].pos, dims[3].pos>>
       /\ <<data[Len(data)].vx, data[Len(data)].vy, data[Len(data)].vz>> =
            <<dims[1].vel, dims[2].vel, dims[3].vel>>

\* langevin.simulate has returned, for alpha = 1/2, sigma = 1 and dt = 1, a
\* realization whose second sample has x = 1/2, vx = 1/2 and ax = 1/2 and whose
\* third sample has x = 1, vx = 1/2 and ax = 0
C21_Witness ==
  /\ Simulated
  /\ model = "langevin"
  /\ params.alpha = Q(1, 2)
  /\ params.sigma = One
  /\ dt = One
  /\ Len(result) >= 1
  /\ Len(result[1]) = 3
  /\ result[1][2].x = Q(1, 2)
  /\ result[1][2].vx = Q(1, 2)
  /\ result[1][2].ax = Q(1, 2)
  /\ result[1][3].x = One
  /\ result[1][3].vx = Q(1, 2)
  /\ result[1][3].ax = Zero

(***************************************************************************)
(* The component TrajectoryTuner                                           *)
(***************************************************************************)
\* no effect of the last render is left to run
Settled == pending = {}

\* C22: whatever id is selected, the model the component uses is an entry of
\* trajectoryList, and it is the first entry when no entry has the selected id
C22_FallsBackToFirst ==
  /\ \E k \in 1..Len(trajectoryList) : trajectory = trajectoryList[k]
  /\ (\A k \in 1..Len(trajectoryList) : trajectoryList[k] # trajectoryId)
       => trajectory = trajectoryList[1]

\* an id no entry has was selected while the second entry was in use
C22_Witness ==
  /\ event.kind = "select"
  /\ event.changed
  /\ trajectoryId = "circle"
  /\ trajectory = trajectoryList[1]

\* C23: once the effects have run, the time cursor is a finite number
\* between 0 and the plot time of the selected model and parameters
C23_CursorWithinPlot ==
  Settled => /\ IsFinite(uiT)
             /\ Le(Zero, uiT)
             /\ Le(uiT, uiPlotTime)

\* the effects have run after a switch to lissajous, the plot time is the
\* one of its defaultParams, and the time cursor is NaN
C23_CursorNotANumber ==
  /\ Settled
  /\ trajectory = "lissajous"
  /\ uiPlotTime = PlotTimeOf("lissajous", lissajousDefaultParams)
  /\ IsFinite(uiPlotTime)
  /\ IsNaN(uiT)

\* C24: whenever the selected model has changed, in either direction, once
\* the effects have settled the parameter set is the defaultParams of the
\* new model and the time cursor is 0
C24_ResetOnSwitch ==
  (Settled /\ event.kind = "select" /\ event.changed)
    => /\ uiParams = DefaultParams(trajectory)
       /\ uiT = Zero

\* the effects have settled after the switch from langevin to lissajous:
\* the parameter set is lissajous.defaultParams, the time cursor is not 0
C24_CursorNotReset ==
  /\ Settled
  /\ event.kind = "select"
  /\ event.changed
  /\ trajectoryId = "lissajous"
  /\ uiParams = DefaultParams(trajectory)
  /\ uiT # Zero

\* C25: in every render, the parameter set handed to the model in use
\* (getPlotTime, simulate, hasSingularity, getCommand) has exactly the keys
\* of that model's defaultParams, never the set of the model used before
C25_OwnParameterSet == DOMAIN uiParams = DOMAIN DefaultParams(trajectory)

\* the render after a switch to langevin: langevin is handed a parameter
\* set with the keys of lissajous, and the reset effect has not run yet
C25_StaleParameterSet ==
  /\ trajectory = "langevin"
  /\ "reset" \in pending
  /\ DOMAIN uiParams = DOMAIN lissajousDefaultParams
  /\ uiPlotTime = PlotTimeOf("langevin", uiParams)

\* every value of the parameter set lies in the inclusive [min, max] that
\* the paramConfig of the model in use gives for its key
WithinBounds ==
  \A key \in DOMAIN uiParams :
    /\ key \in DOMAIN ParamConfig(trajectory)
    /\ Le(ParamConfig(trajectory)[key].min, uiParams[key])
    /\ Le(uiParams[key], ParamConfig(trajectory)[key].max)

\* the user has just entered a text in a parameter slider that parseFloat
\* does not read as a finite number
NonFiniteEdit ==
  /\ Settled
  /\ event'.kind = "change"
  /\ ~event'.finite
  /\ Settled'

\* C26: after any parameter edits and model switches, once the effects have
\* settled every parameter lies within the [min, max] of its key in the
\* selected model's paramConfig; a non-finite input leaves the parameter set
\* as it was
C26_ParametersWithinBounds ==
  /\ [](Settled => WithinBounds)
  /\ [][NonFiniteEdit => uiParams' = uiParams]_vars

\* an edit below the minimum has been clamped to the minimum of its key,
\* which is not a multiple of the step
C26_Witness ==
  /\ Settled
  /\ event.kind = "change"
  /\ event.finite
  /\ trajectory = "lissajous"
  /\ uiParams.duration = lissajousParamConfig.duration.min

Ordered(least, mean, greatest, std, lower, upper) ==
  /\ Le(least, mean)
  /\ Le(mean, greatest)
  /\ Ge(std, Zero)
  /\ Le(lower, mean)
  /\ Le(mean, upper)
  /\ Le(std, Sub(greatest, least))

IdenticalCopies(batch) == \A k \in 1..Len(batch) : batch[k] = batch[1]

\* the statistics of record r are those of the record single, computed from
\* one trajectory alone, and its deviations are 0
AgreesWithSingle(r, single) ==
  /\ r.t = single.t
  /\ r.speedMin = single.speedMin
  /\ r.speedMax = single.speedMax
  /\ r.speedMean = single.speedMean
  /\ r.speedStd = Zero
  /\ r.accelMin = single.accelMin
  /\ r.accelMax = single.accelMax
  /\ r.accelMean = single.accelMean
  /\ r.accelStd = Zero

\* C29: for a batch of N > 1 identical copies of one trajectory, computeStats
\* returns records with the same t, minimum, maximum and mean of speed and
\* accel as for the batch of that trajectory alone, and deviations 0
C29_BranchesAgree ==
  (op = "computeStats" /\ ~missing /\ Len(trajectoryData) > 1
     /\ IdenticalCopies(trajectoryData))
    => /\ Len(stats) = Len(trajectoryData[1])
       /\ \A j \in 1..Len(stats) :
            AgreesWithSingle(stats[j], SingleRecord(trajectoryData[1][j]))


\* computeStats was handed two identical trajectories returned by
\* lissajous.simulate with a sample whose speed is not finite: the deviation
\* of the speeds is NaN, and it is 0 in the record of the trajectory alone
C29_DeviationNotANumber ==
  /\ op = "computeStats"
  /\ fromSimulate
  /\ model = "lissajous"
  /\ Len(trajectoryData) = 2
  /\ IdenticalCopies(trajectoryData)
  /\ \E j \in 1..Len(stats) :
       /\ ~IsFinite(trajectoryData[1][j].speed)
       /\ IsNaN(stats[j].speedStd)
       /\ SingleRecord(trajectoryData[1][j]).speedStd = Zero

=============================================================================
